---- MODULE Spec2Model ----
(***************************************************************************)
(* Notification and settlement engine of TelegramHabitBot.                 *)
(*                                                                         *)
(* The repository ships two deployments of the same bot:                   *)
(*   "root"          bot.py + handlers.py + scheduler.py + database.py     *)
(*                   (aiosqlite, one prompt and one ledger row per habit)  *)
(*   "habit_tracker" handlers.py + habit_tracker/scheduler.py +            *)
(*                   habit_tracker/database.py (asyncpg, one consolidated  *)
(*                   prompt and one ledger row per user)                   *)
(* The variable deployment is chosen once in Init and never changes.       *)
(*                                                                         *)
(* Time: now counts the minutes since 00:00 of the first day in the zone   *)
(* of the scheduler (KZ_TZ, Asia/Almaty).  database.py of the root         *)
(* deployment reads the naive datetime.now() of the host instead, which is *)
(* host_skew minutes ahead; dates are taken in the scheduler's zone.  The  *)
(* clock                                                                   *)
(* jumps from one instant at which something can happen to the next: the   *)
(* cron times of setup_scheduler, midnight, and the minute at and after    *)
(* the expiry of a ledger row.  Handlers may run at any of these instants. *)
(* REAL columns hold small integers here (every quick-input button except  *)
(* +0.5 is an integer, and integers are exact in a float).                 *)
(***************************************************************************)
EXTENDS Integers, Sequences, FiniteSets, TLC

\* ---------------------------------------------------------------- bounds
MaxNotifs == 2        \* ledger ids handed out by the SERIAL column
MaxTime == 1439       \* last minute the clock reaches (23:59 of the first day)
MaxValue == 2         \* largest accumulated value a log write may produce
MaxStatDays == 3       \* days of history of a numeric habit get_habit_stats reads
MaxEodRuns == 2       \* settlement runs at one 23:59

\* ------------------------------------------------------ program constants
ResponseWindow == 10  \* minutes between sent_at and expires_at
WeekLength == 7       \* week_end = week_start + timedelta(days=6)
SweepPeriod == 1      \* check_expired_notifications fires every minute
PointsPerGoal == 1    \* points credited per completed marathon habit
MinutesPerDay == 24 * 60
EodMinute == 23 * 60 + 59     \* CronTrigger(hour=23, minute=59)

Users == {1, 2}
AdminUser == 1        \* the user whose username is ADMIN_USERNAME
Creators == {1}       \* users who create the marathon
Deployments == {"root", "habit_tracker"}
HostSkews == {0, 0 - 300}     \* the host runs in Asia/Almaty, or in UTC (5 hours behind)
HabitTypes == {"boolean", "numeric"}
GoalInputs == {1, 2}          \* numbers typed as a daily goal
LargeGoal == MaxValue + 1     \* a goal that takes two log writes to reach
BoolButtons == {0, 1}         \* log_bool_<id>_<0|1>
QuickButtons == {1}           \* log_num_<id>_<v> and notif_resp_<id>_<v>
CustomInputs == {2}           \* numbers typed as a custom value
NoMarathon == 0               \* marathon_id IS NULL
MarathonId == 1               \* the one marathon the model creates

VARIABLES
    deployment,             \* which pair scheduler/database is running
    host_skew,              \* minutes the host's local clock is ahead of Asia/Almaty
    now,                    \* datetime.now(KZ_TZ) / NOW(), in minutes
    habits,                 \* table habits: id -> row
    next_habit_id,          \* SERIAL of habits.id
    habit_logs,             \* table habit_logs: set of rows
    pending_notifications,  \* table pending_notifications: set of rows
    next_notif_id,          \* SERIAL of pending_notifications.id
    marathon_habits,        \* table marathon_habits of MarathonId (sequence of templates)
    marathon_participants,  \* table marathon_participants: set of rows
    chat,                   \* prompt messages delivered and not deleted
    check_fired,            \* the notification check of this instant has run
    check_error,            \* user at whom that check raised out of its loop (0: none)
    eod_runs,               \* settlement runs at this instant
    day_start_streak,       \* history: habits.streak of each habit when today began
    credited_today,         \* history: points credited per habit on today
    logged,                 \* history: sum of the deltas of log_habit calls that returned, per <<habit, date>>
    sweep,                  \* check_expired_notifications in progress: position and locals
    inflight,               \* log_habit calls of handlers in progress, per user
    stats,                  \* what the last get_habit_stats call returned
    sending,                \* prompt delivered by send_message whose ledger row is not written yet
    notification_times,     \* users.notification_times, per user
    joining                 \* join_marathon calls of cmd_start in progress: position, user, return value

vars == <<deployment, host_skew, now, habits, next_habit_id, habit_logs,
          pending_notifications, next_notif_id, marathon_habits,
          marathon_participants, chat, check_fired, check_error, eod_runs,
          day_start_streak, credited_today, logged, sweep, inflight, stats,
          sending, notification_times, joining>>

HabitIds == {1, 2}    \* habit ids handed out by the SERIAL column
TwoDays == 2 * MinutesPerDay - 1     \* 23:59 of the second day
LastMinute == IF MaxTime >= TwoDays THEN MaxTime ELSE TwoDays
Days == 1..(LastMinute \div MinutesPerDay + 1)

\* date.today()
today == now \div MinutesPerDay + 1

\* ------------------------------------------------------------- helpers
Max(a, b) == IF a >= b THEN a ELSE b

MinOf(S) == CHOOSE x \in S : \A y \in S : x <= y

\* get_user_habits(user_id): ids of the user's habits (is_active is never cleared)
get_user_habits(hs, user_id) == {h \in DOMAIN hs : hs[h].user_id = user_id}

\* get_daily_log / get_daily_logs_batch: the rows of a habit on a date
LogRows(logs, habit_id, log_date) ==
    {r \in logs : r.habit_id = habit_id /\ r.log_date = log_date}

\* `log and log['completed']` for the first row found
IsCompleted(logs, habit_id, log_date) ==
    /\ LogRows(logs, habit_id, log_date) # {}
    /\ (CHOOSE r \in LogRows(logs, habit_id, log_date) : TRUE).completed = 1

\* value of today's log or 0 when there is none (process_end_of_day)
ValueOn(logs, habit_id, log_date) ==
    IF LogRows(logs, habit_id, log_date) = {} THEN 0
    ELSE (CHOOSE r \in LogRows(logs, habit_id, log_date) : TRUE).value

\* ------------------------------------------------------------ log_habit
\* The two SELECTs at the start of log_habit.
LogSnapshot(hs, logs, habit_id, log_date) ==
    [habit_found |-> habit_id \in DOMAIN hs,
     daily_goal |-> IF habit_id \in DOMAIN hs THEN hs[habit_id].daily_goal ELSE 0,
     log_found |-> LogRows(logs, habit_id, log_date) # {},
     value |-> ValueOn(logs, habit_id, log_date)]

\* `1 if new_value >= habit['daily_goal'] else 0`
CompletedFlag(new_value, daily_goal) == IF new_value >= daily_goal THEN 1 ELSE 0

\* log_habit whose UPDATE stores the delta in place of the sum
LogApplyOverwrite(dep, hs, logs, snap, habit_id, user_id, value, log_date) ==
    IF ~snap.habit_found THEN [ok |-> FALSE, logs |-> logs, new_value |-> 0]
    ELSE IF snap.log_found THEN
        [ok |-> TRUE,
         logs |-> {IF r.habit_id = habit_id /\ r.log_date = log_date
                   THEN [r EXCEPT !.value = value,
                                  !.completed = CompletedFlag(value, snap.daily_goal)]
                   ELSE r : r \in logs},
         new_value |-> value]
    ELSE [ok |-> TRUE,
          logs |-> logs \cup {[habit_id |-> habit_id, user_id |-> user_id,
                               log_date |-> log_date, value |-> value,
                               completed |-> CompletedFlag(value, snap.daily_goal)]},
          new_value |-> value]

\* log_habit that does not read the habit row and writes the log of a habit
\* that is not in the table
LogApplyOrphan(dep, hs, logs, snap, habit_id, user_id, value, log_date) ==
    IF snap.log_found THEN
        LET new_value == snap.value + value
            completed == CompletedFlag(new_value, snap.daily_goal)
        IN [ok |-> TRUE,
            logs |-> {IF r.habit_id = habit_id /\ r.log_date = log_date
                      THEN [r EXCEPT !.value = new_value, !.completed = completed]
                      ELSE r : r \in logs},
            new_value |-> new_value]
    ELSE [ok |-> TRUE,
          logs |-> logs \cup {[habit_id |-> habit_id, user_id |-> user_id,
                               log_date |-> log_date, value |-> value,
                               completed |-> CompletedFlag(value, snap.daily_goal)]},
          new_value |-> value]

\* The UPDATE or INSERT at the end of log_habit, applied to the tables as
\* they are now, from what the SELECTs saw.  ok = FALSE is an exception
\* (dict(None) for a missing habit, UNIQUE(habit_id, log_date) or the
\* foreign key of habit_logs.habit_id on the INSERT).
LogApply(dep, hs, logs, snap, habit_id, user_id, value, log_date) ==
    IF ~snap.habit_found THEN [ok |-> FALSE, logs |-> logs, new_value |-> 0]
    ELSE IF snap.log_found THEN
        LET new_value == snap.value + value
            completed == CompletedFlag(new_value, snap.daily_goal)
        IN [ok |-> TRUE,
            logs |-> {IF r.habit_id = habit_id /\ r.log_date = log_date
                      THEN [r EXCEPT !.value = new_value, !.completed = completed]
                      ELSE r : r \in logs},
            new_value |-> new_value]
    ELSE IF \/ LogRows(logs, habit_id, log_date) # {}
            \/ (dep = "habit_tracker" /\ habit_id \notin DOMAIN hs)
         THEN [ok |-> FALSE, logs |-> logs, new_value |-> 0]
    ELSE [ok |-> TRUE,
          logs |-> logs \cup {[habit_id |-> habit_id, user_id |-> user_id,
                               log_date |-> log_date, value |-> value,
                               completed |-> CompletedFlag(value, snap.daily_goal)]},
          new_value |-> value]

\* log_habit run without interruption
log_habit(dep, hs, logs, habit_id, user_id, value, log_date) ==
    LogApply(dep, hs, logs, LogSnapshot(hs, logs, habit_id, log_date),
             habit_id, user_id, value, log_date)

\* mark_notification_responded(user_id, habit_id)
MarkedRows(pending, user_id, habit_id) ==
    {n \in pending : n.user_id = user_id /\ n.habit_id = habit_id /\ n.responded = 0}

mark_notification_responded(pending, user_id, habit_id) ==
    {IF n \in MarkedRows(pending, user_id, habit_id)
     THEN [n EXCEPT !.responded = 1] ELSE n : n \in pending}

\* ordered list of a finite set of integers
RECURSIVE SetToSeq(_)
SetToSeq(S) == IF S = {} THEN <<>> ELSE <<MinOf(S)>> \o SetToSeq(S \ {MinOf(S)})

\* ------------------------------------------------------------------ Init
SweepIdle == [pc |-> "idle", expired |-> <<>>, processed |-> {}, todo |-> <<>>,
              snap |-> LogSnapshot(<<>>, {}, 0, 0)]

\* notification_times TEXT DEFAULT '["08:00", "14:00", "21:00"]'
DefaultNotificationTimes == {"08:00", "14:00", "21:00"}

\* available_times of notification_times_keyboard
available_times ==
    {"06:00", "07:00", "08:00", "09:00", "10:00", "12:00", "13:00", "14:00",
     "15:00", "18:00", "19:00", "20:00", "21:00", "22:00"}

\* notification_hours of setup_scheduler
notification_hours == {6, 7, 8, 9, 10, 12, 13, 14, 15, 18, 19, 20, 21, 22}

\* f"{hour}:00", without the zero padding
FormatHourUnpadded(hour) == ToString(hour) \o ":00"

\* f"{hour:02d}:00"
FormatHour(hour) == (IF hour < 10 THEN "0" ELSE "") \o ToString(hour) \o ":00"

\* the args of the check_notifications_for_time jobs setup_scheduler adds
ScheduledCheckTimes == {FormatHour(hour) : hour \in notification_hours}

\* cmd_start coroutines that can be inside db.join_marathon at once
JoinCalls == {1, 2}

\* no join_marathon call made yet by that coroutine
NoJoin == [pc |-> "idle", user_id |-> 0, result |-> "none"]

\* no send_*_notification call is between send_message and
\* create_pending_notification
NoSend == [active |-> FALSE, id |-> 0, user_id |-> 0, habit_id |-> 0,
           message_id_stored |-> FALSE]

\* no get_habit_stats call has returned yet
NoStats == [habit_id |-> 0]

NoCall == [active |-> FALSE, habit_id |-> 0, value |-> 0,
           snap |-> LogSnapshot(<<>>, {}, 0, 0)]

Init ==
    /\ deployment \in Deployments
    /\ host_skew \in IF deployment = "root" THEN HostSkews ELSE {0}
    /\ now = 0
    /\ habits = <<>>
    /\ next_habit_id = 1
    /\ habit_logs = {}
    /\ pending_notifications = {}
    /\ next_notif_id = 1
    /\ marathon_habits = <<>>
    /\ marathon_participants = {}
    /\ chat = {}
    /\ check_fired = FALSE
    /\ check_error = 0
    /\ eod_runs = 0
    /\ day_start_streak = [h \in HabitIds |-> 0]
    /\ credited_today = [h \in HabitIds |-> 0]
    /\ logged = [k \in HabitIds \X Days |-> 0]
    /\ sweep = SweepIdle
    /\ inflight = [u \in Users |-> NoCall]
    /\ stats = NoStats
    /\ sending = NoSend
    /\ notification_times = [u \in Users |-> DefaultNotificationTimes]
    /\ joining = [c \in JoinCalls |-> NoJoin]

\* --------------------------------------------------------------- clock
\* CronTrigger(hour=hour, minute=0), args=[f"{hour:02d}:00"], of the check
\* times the model fires
CheckTimes == {"08:00"}

\* the jobs of setup_scheduler: the argument of each and the minute of the
\* day its CronTrigger(hour=hour, minute=0) fires at
CheckJobs ==
    [check_time \in ScheduledCheckTimes |->
        60 * (CHOOSE hour \in notification_hours : FormatHour(hour) = check_time)]

\* the minute of the day at which the job with this argument fires
CheckMinute(check_time) == CheckJobs[check_time]

\* minutes of the day the issuer's and the settlement's cron triggers fire at
CheckMinutes == {CheckMinute(c) : c \in CheckTimes}

EodMinutes == {EodMinute}

\* the midnights and the given minutes of every day up to the minute last
Timetable(minutes, last) ==
    {d * MinutesPerDay + m :
        d \in 0..(last \div MinutesPerDay), m \in {0} \cup minutes}

\* what the store compares expires_at with at time t: the naive
\* datetime.now().isoformat() of the host in database.py, NOW() in
\* habit_tracker/database.py
StoreNow(dep, skew, t) == IF dep = "root" THEN t + skew ELSE t

\* delete_expired_notifications: DELETE ... WHERE responded = 1 OR expires_at < now
delete_responded_only(pending, t) ==
    {n \in pending : ~(n.responded = 1)}

delete_expired_notifications(pending, t) ==
    {n \in pending : ~(n.responded = 1 \/ n.expires_at < t)}

\* the minute the store's clock reaches expires_at of a ledger row, and the
\* first sweep after it
Boundaries(pending) ==
    LET lag == now - StoreNow(deployment, host_skew, now)
    IN UNION {{n.expires_at + lag, n.expires_at + lag + SweepPeriod} : n \in pending}

Instants(minutes, last) ==
    {t \in Timetable(minutes, last) \cup Boundaries(pending_notifications) :
        t > now /\ t <= last}

\* The clock moves to the next instant: a midnight, one of the given cron
\* minutes, or a boundary of a ledger row.  The sweep fires every minute, so
\* when the clock moves on the last sweep has left nothing it deletes.
TickTo(minutes, last) ==
    /\ Instants(minutes, last) # {}
    /\ delete_expired_notifications(pending_notifications,
           StoreNow(deployment, host_skew, now)) = pending_notifications
    /\ now' = MinOf(Instants(minutes, last))
    /\ check_fired' = FALSE
    /\ check_error' = 0
    /\ eod_runs' = 0
    /\ IF MinOf(Instants(minutes, last)) \div MinutesPerDay # now \div MinutesPerDay
       THEN /\ day_start_streak' = [h \in HabitIds |->
                    IF h \in DOMAIN habits THEN habits[h].streak ELSE 0]
            /\ credited_today' = [h \in HabitIds |-> 0]
       ELSE UNCHANGED <<day_start_streak, credited_today>>
    /\ UNCHANGED <<deployment, host_skew, habits, next_habit_id, habit_logs,
                   pending_notifications, next_notif_id, marathon_habits,
                   marathon_participants, chat, logged, sweep, inflight, stats,
                   sending, notification_times, joining>>

Tick(minutes) == TickTo(minutes, MaxTime)

\* ------------------------------------------------------------- habits
\* float(message.text.replace(",", ".")) of log_custom_value, habit_goal_received,
\* edit_habit_goal_done and marathon_habit_goal on the texts a
\* user may type: a ValueError for a text that is no number, the number
\* otherwise, with its sign
TypedTexts == {"2", "-1", "abc"}

float(text) ==
    CASE text = "2" -> [ok |-> TRUE, value |-> 2]
      [] text = "-1" -> [ok |-> TRUE, value |-> 0 - 1]
      [] OTHER -> [ok |-> FALSE, value |-> 0]

NewHabitRow(user_id, habit_type, daily_goal, marathon_id) ==
    [user_id |-> user_id, habit_type |-> habit_type, daily_goal |-> daily_goal,
     streak |-> 0, max_streak |-> 0, marathon_id |-> marathon_id]

\* db.create_habit: INSERT INTO habits ... RETURNING id
create_habit(hs, id, user_id, habit_type, daily_goal, marathon_id) ==
    [h \in DOMAIN hs \cup {id} |->
        IF h = id THEN NewHabitRow(user_id, habit_type, daily_goal, marathon_id)
        ELSE hs[h]]

\* habit_type_selected / habit_goal_received / habit_category_selected
HabitCategorySelected(u, habit_type, goal) ==
    /\ next_habit_id \in HabitIds
    /\ habit_type = "boolean" => goal = 1
    /\ habit_type = "numeric" => goal \in GoalInputs \cup {LargeGoal}
    /\ habits' = create_habit(habits, next_habit_id, u, habit_type, goal, NoMarathon)
    /\ next_habit_id' = next_habit_id + 1
    /\ UNCHANGED <<deployment, host_skew, now, habit_logs, pending_notifications,
                   next_notif_id, marathon_habits, marathon_participants, chat,
                   check_fired, check_error, eod_runs, day_start_streak,
                   credited_today, logged, sweep, inflight, stats, sending,
                   notification_times, joining>>

\* edit_habit_goal_done: db.update_habit(habit_id, daily_goal=new_goal).
\* The goal button is offered for numeric habits only.
update_habit_goal(hs, habit_id, new_goal) ==
    [hs EXCEPT ![habit_id].daily_goal = new_goal]

EditHabitGoalDone(h, new_goal) ==
    /\ h \in DOMAIN habits
    /\ habits[h].habit_type = "numeric"
    /\ habits' = update_habit_goal(habits, h, new_goal)
    /\ UNCHANGED <<deployment, host_skew, now, next_habit_id, habit_logs,
                   pending_notifications, next_notif_id, marathon_habits,
                   marathon_participants, chat, check_fired, check_error, eod_runs,
                   day_start_streak, credited_today, logged, sweep, inflight, stats,
                   sending, notification_times, joining>>

\* habit_goal_received .. habit_category_selected for a numeric habit whose
\* goal is the typed text: `except ValueError` asks again, any parsed number
\* becomes daily_goal
HabitGoalReceived(u, text) ==
    /\ next_habit_id \in HabitIds
    /\ text \in TypedTexts
    /\ IF float(text).ok
       THEN /\ habits' = create_habit(habits, next_habit_id, u, "numeric",
                                      float(text).value, NoMarathon)
            /\ next_habit_id' = next_habit_id + 1
            /\ UNCHANGED <<deployment, host_skew, now, habit_logs, pending_notifications,
                           next_notif_id, marathon_habits, marathon_participants, chat,
                           check_fired, check_error, eod_runs, day_start_streak,
                           credited_today, logged, sweep, inflight, stats, sending,
                           notification_times, joining>>
       ELSE UNCHANGED vars

\* edit_habit_goal_done on a typed text
EditHabitGoalText(h, text) ==
    /\ text \in TypedTexts
    /\ IF float(text).ok THEN EditHabitGoalDone(h, float(text).value)
       ELSE h \in DOMAIN habits /\ UNCHANGED vars

\* db.delete_habit: DELETE FROM habit_logs, DELETE FROM habits.  The asyncpg
\* schema declares pending_notifications.habit_id ON DELETE CASCADE; the
\* aiosqlite backend never enables foreign keys, so its ledger rows stay.
DeleteLogs(logs, ids) == {r \in logs : r.habit_id \notin ids}

DeleteHabits(hs, ids) == [h \in DOMAIN hs \ ids |-> hs[h]]

CascadePending(dep, pending, ids) ==
    IF dep = "habit_tracker" THEN {n \in pending : n.habit_id \notin ids}
    ELSE pending

ForgetLogged(lg, ids) ==
    [k \in HabitIds \X Days |-> IF k[1] \in ids THEN 0 ELSE lg[k]]

\* delete_habit_confirm refuses marathon habits; delete_habit_confirmed deletes
DeleteHabitConfirmed(h) ==
    /\ h \in DOMAIN habits
    /\ habits[h].marathon_id = NoMarathon
    /\ habit_logs' = DeleteLogs(habit_logs, {h})
    /\ habits' = DeleteHabits(habits, {h})
    /\ pending_notifications' = CascadePending(deployment, pending_notifications, {h})
    /\ logged' = ForgetLogged(logged, {h})
    /\ UNCHANGED <<deployment, host_skew, now, next_habit_id, next_notif_id,
                   marathon_habits, marathon_participants, chat, check_fired,
                   check_error, eod_runs, day_start_streak, credited_today, sweep,
                   inflight, stats, sending, notification_times, joining>>

\* ------------------------------------------------------- log handlers
\* log_boolean, log_numeric, log_custom_value and notification_response all
\* run db.log_habit(habit_id, user, value) and then
\* db.mark_notification_responded(user, habit_id); an exception of log_habit
\* leaves the handler before the ledger is touched.
ValueInRange(v) == v <= MaxValue

LogAndMarkUpTo(h, value, cap) ==
    LET u == habits[h].user_id
        res == log_habit(deployment, habits, habit_logs, h, u, value, today)
    IN /\ res.new_value <= cap
       /\ res.ok
       /\ habit_logs' = res.logs
       /\ logged' = [logged EXCEPT ![<<h, today>>] = @ + value]
       /\ pending_notifications' =
              mark_notification_responded(pending_notifications, u, h)
       /\ ~inflight[u].active
       /\ UNCHANGED <<deployment, host_skew, now, habits, next_habit_id, next_notif_id,
                      marathon_habits, marathon_participants, chat, check_fired,
                      check_error, eod_runs, day_start_streak, credited_today, sweep,
                      inflight, stats, sending, notification_times, joining>>

LogAndMark(h, value) == LogAndMarkUpTo(h, value, MaxValue)

LogBoolean(h, value) ==
    /\ h \in DOMAIN habits
    /\ habits[h].habit_type = "boolean"
    /\ value \in BoolButtons
    /\ LogAndMark(h, value)

LogNumeric(h, value) ==
    /\ h \in DOMAIN habits
    /\ habits[h].habit_type = "numeric"
    /\ value \in QuickButtons
    /\ LogAndMark(h, value)

LogCustomValue(h, value) ==
    /\ h \in DOMAIN habits
    /\ habits[h].habit_type = "numeric"
    /\ value \in CustomInputs
    /\ LogAndMark(h, value)

\* log_custom_value on a typed text: `except ValueError` answers with a hint
\* and writes nothing; any parsed number goes to log_habit
LogCustomText(h, text) ==
    /\ h \in DOMAIN habits
    /\ habits[h].habit_type = "numeric"
    /\ text \in TypedTexts
    /\ IF float(text).ok
       THEN /\ ValueOn(habit_logs, h, today) + float(text).value >= 0 - MaxValue
            /\ LogAndMarkUpTo(h, float(text).value, MaxValue)
       ELSE UNCHANGED vars

\* notif_resp_<id>_<v>: the buttons under a per-habit prompt of scheduler.py
NotificationResponse(h, value) ==
    /\ h \in DOMAIN habits
    /\ \E m \in chat : h \in m.habits /\ m.keyboard = "notification_response"
    /\ value \in (IF habits[h].habit_type = "boolean" THEN BoolButtons ELSE QuickButtons)
    /\ LogAndMark(h, value)

\* ------------------------------------------------- notification issuer
\* users.notification_times DEFAULT '["08:00", "14:00", "21:00"]'
get_user_notification_times(u) == notification_times[u]

\* habits of the user whose log of the date is missing or not completed
Uncompleted(hs, logs, u, d) ==
    {h \in get_user_habits(hs, u) : ~IsCompleted(logs, h, d)}

\* send_habit_notification of scheduler.py for each habit of the list:
\* one message with the notification_response keyboard and one ledger row each
RECURSIVE PerHabitPrompts(_, _)
PerHabitPrompts(u, hseq) ==
    IF hseq = <<>> THEN <<>>
    ELSE <<[user_id |-> u, habit_id |-> Head(hseq), habits |-> {Head(hseq)},
            message_id_stored |-> FALSE, keyboard |-> "notification_response"]>>
         \o PerHabitPrompts(u, Tail(hseq))

\* send_consolidated_notification of habit_tracker/scheduler.py: one message
\* with log_habits_keyboard and one ledger row that references the first
\* habit of the list (first[u]: the list is ordered by category and name)
ConsolidatedPrompt(u, uncompleted, first) ==
    <<[user_id |-> u, habit_id |-> first, habits |-> uncompleted,
       message_id_stored |-> TRUE, keyboard |-> "log_habits"]>>

\* a run that stops at the first user the gateway cannot reach
RECURSIVE PromptsForAbort(_, _, _, _, _, _, _)
PromptsForAbort(dep, hs, logs, useq, lost, first, d) ==
    IF useq = <<>> THEN <<>>
    ELSE LET u == Head(useq)
             uncompleted == Uncompleted(hs, logs, u, d)
         IN IF uncompleted # {} /\ u \in lost THEN <<>>
            ELSE (IF uncompleted = {} THEN <<>>
                  ELSE IF dep = "habit_tracker"
                       THEN ConsolidatedPrompt(u, uncompleted, first[u])
                       ELSE PerHabitPrompts(u, SetToSeq(uncompleted)))
                 \o PromptsForAbort(dep, hs, logs, Tail(useq), lost, first, d)

\* the prompts one run sends, in order; lost = users the gateway cannot reach
RECURSIVE PromptsFor(_, _, _, _, _, _, _)
PromptsFor(dep, hs, logs, useq, lost, first, d) ==
    IF useq = <<>> THEN <<>>
    ELSE LET u == Head(useq)
             uncompleted == Uncompleted(hs, logs, u, d)
             mine == IF uncompleted = {} \/ u \in lost THEN <<>>
                     ELSE IF dep = "habit_tracker"
                          THEN ConsolidatedPrompt(u, uncompleted, first[u])
                          ELSE PerHabitPrompts(u, SetToSeq(uncompleted))
         IN mine \o PromptsFor(dep, hs, logs, Tail(useq), lost, first, d)

\* db.create_pending_notification: sent_at is the store's clock; expires_at
\* is datetime.now(KZ_TZ) + timedelta(minutes=10) of the caller in scheduler.py
\* and NOW() + INTERVAL '10 minutes' in habit_tracker/database.py
\* a ledger row whose window is two hours
LedgerRowTwoHours(p, id, sent, t) ==
    [id |-> id, user_id |-> p.user_id, habit_id |-> p.habit_id,
     message_id |-> IF p.message_id_stored THEN id ELSE 0,
     sent_at |-> sent, expires_at |-> t + 2 * 60, responded |-> 0]

LedgerRow(p, id, sent, t) ==
    [id |-> id, user_id |-> p.user_id, habit_id |-> p.habit_id,
     message_id |-> IF p.message_id_stored THEN id ELSE 0,
     sent_at |-> sent, expires_at |-> t + ResponseWindow, responded |-> 0]

\* bot_instance.send_message: the delivered prompt
ChatMessage(p, id) ==
    [message_id |-> id, user_id |-> p.user_id, habits |-> p.habits,
     keyboard |-> p.keyboard]

FirstChoiceOk(first, useq) ==
    \A u \in Users :
        LET uncompleted == Uncompleted(habits, habit_logs, u, today)
        IN IF uncompleted # {} /\ deployment = "habit_tracker"
              /\ \E i \in 1..Len(useq) : useq[i] = u
           THEN first[u] \in uncompleted
           ELSE first[u] = 0

SendPrompts(useq, lost, first) ==
    LET prompts == PromptsFor(deployment, habits, habit_logs, useq, lost, first, today)
        ids == [i \in 1..Len(prompts) |-> next_notif_id + i - 1]
    IN /\ FirstChoiceOk(first, useq)
       /\ Len(prompts) > 0
       /\ next_notif_id + Len(prompts) - 1 <= MaxNotifs
       /\ pending_notifications' = pending_notifications \cup
              {LedgerRow(prompts[i], ids[i], StoreNow(deployment, host_skew, now), now) :
                  i \in 1..Len(prompts)}
       /\ chat' = chat \cup {ChatMessage(prompts[i], ids[i]) : i \in 1..Len(prompts)}
       /\ next_notif_id' = next_notif_id + Len(prompts)
       /\ UNCHANGED <<deployment, host_skew, now, habits, next_habit_id, habit_logs,
                      marathon_habits, marathon_participants, eod_runs,
                      day_start_streak, credited_today, logged, sweep, inflight, stats,
                      sending, notification_times, joining>>

\* check_notifications_for_time(check_time), fired once by its cron trigger
CheckNotificationsForTime(check_time, lost, first) ==
    /\ now % MinutesPerDay = CheckMinute(check_time)
    /\ ~check_fired
    /\ check_fired' = TRUE
    /\ UNCHANGED check_error
    /\ SendPrompts(SetToSeq({u \in Users : check_time \in get_user_notification_times(u)}),
                   lost, first)

\* check_notifications_for_time when a store call of its loop
\* (get_user_notification_times, get_user_habits, get_daily_logs_batch)
\* raises at the k-th user: nothing in the loop catches it, so the users
\* before are served and the job ends there.  The gateway delivers.
CheckNotificationsStoreError(check_time, k, first) ==
    LET due == SetToSeq({u \in Users : check_time \in get_user_notification_times(u)})
        served == SubSeq(due, 1, k - 1)
        prompts == PromptsFor(deployment, habits, habit_logs, served, {}, first, today)
    IN /\ now % MinutesPerDay = CheckMinute(check_time)
       /\ ~check_fired
       /\ k \in 1..Len(due)
       /\ check_fired' = TRUE
       /\ check_error' = due[k]
       /\ IF Len(prompts) > 0
          THEN SendPrompts(served, {}, first)
          ELSE /\ first = [u \in Users |-> 0]
               /\ UNCHANGED <<deployment, host_skew, now, habits, next_habit_id, habit_logs,
                              pending_notifications, next_notif_id, marathon_habits,
                              marathon_participants, chat, eod_runs, day_start_streak,
                              credited_today, logged, sweep, inflight, stats, sending,
                              notification_times, joining>>

\* test_notification (/test_notif, admin only) imports send_habit_notification
\* from scheduler: it exists in scheduler.py only, so under habit_tracker the
\* import raises and nothing is written.
TestNotification(lost) ==
    /\ deployment = "root"
    /\ SendPrompts(<<AdminUser>>, lost, [u \in Users |-> 0])
    /\ UNCHANGED <<check_fired, check_error>>

\* ---------------------------------------------------- expiry reconciler
\* get_expired_notifications: responded = 0 AND expires_at < now
ExpiredRows(pending, t) == {n \in pending : n.responded = 0 /\ n.expires_at < t}

RowWithId(rows, id) == CHOOSE n \in rows : n.id = id

get_expired_notifications(pending, t) ==
    LET ids == SetToSeq({n.id : n \in ExpiredRows(pending, t)})
    IN [i \in 1..Len(ids) |-> RowWithId(pending, ids[i])]

\* `for habit in habits: if not log or not log['completed']: log_habit(.., 0)`
\* an exception leaves the loop (it is caught around the whole notification)
RECURSIVE ZeroFill(_, _, _, _, _, _)
ZeroFill(dep, hs, logs, todo, u, d) ==
    IF todo = <<>> THEN [logs |-> logs, writes |-> 0]
    ELSE LET r == log_habit(dep, hs, logs, Head(todo), u, 0, d)
         IN IF ~r.ok THEN [logs |-> logs, writes |-> 0]
            ELSE LET rest == ZeroFill(dep, hs, r.logs, Tail(todo), u, d)
                 IN [logs |-> rest.logs, writes |-> rest.writes + 1]

\* bot_instance.delete_message(chat_id, message_id), when the row stores one
DeleteMessage(msgs, n) ==
    IF n.message_id # 0 THEN {m \in msgs : m.message_id # n.message_id} ELSE msgs

\* a sweep that zero-fills the habit of the expired row only
SweepTodoRowHabit(dep, hs, logs, n, d) == <<n.habit_id>>

\* habits the sweep zero-fills for one expired row: every uncompleted habit of
\* the user (habit_tracker/scheduler.py), or the habit of the row, completed
\* or not (scheduler.py)
SweepTodo(dep, hs, logs, n, d) ==
    IF dep = "habit_tracker" THEN SetToSeq(Uncompleted(hs, logs, n.user_id, d))
    ELSE <<n.habit_id>>

\* body of `for notif in expired` for one row; st = [logs, chat, writes]
ProcessExpired(dep, hs, st, n, d) ==
    LET z == ZeroFill(dep, hs, st.logs, SweepTodo(dep, hs, st.logs, n, d), n.user_id, d)
    IN [logs |-> z.logs, chat |-> DeleteMessage(st.chat, n),
        writes |-> st.writes + z.writes]

RECURSIVE SweepAll(_, _, _, _, _)
SweepAll(dep, hs, st, expired, d) ==
    IF expired = <<>> THEN st
    ELSE SweepAll(dep, hs, ProcessExpired(dep, hs, st, Head(expired), d),
                  Tail(expired), d)

\* check_expired_notifications run without interruption, as a function of the
\* store: the new logs, chat and ledger, the log statements it executed and
\* the rows it processed
check_expired_notifications(dep, hs, logs, pending, msgs, t, d) ==
    LET expired == get_expired_notifications(pending, t)
        st == SweepAll(dep, hs, [logs |-> logs, chat |-> msgs, writes |-> 0], expired, d)
    IN [logs |-> st.logs, chat |-> st.chat, writes |-> st.writes,
        pending |-> delete_expired_notifications(pending, t),
        processed |-> {expired[i].id : i \in 1..Len(expired)}]

CheckExpiredNotifications ==
    LET res == check_expired_notifications(deployment, habits, habit_logs,
                   pending_notifications, chat,
                   StoreNow(deployment, host_skew, now), today)
    IN /\ sweep.pc = "idle"
       /\ habit_logs' = res.logs
       /\ chat' = res.chat
       /\ pending_notifications' = res.pending
       /\ UNCHANGED <<deployment, host_skew, now, habits, next_habit_id, next_notif_id,
                      marathon_habits, marathon_participants, check_fired, check_error,
                      eod_runs, day_start_streak, credited_today, logged, sweep,
                      inflight, stats, sending, notification_times, joining>>

\* ---------------------------------------------------- settlement engine
\* update_streak that leaves the streak alone on a day without completion
update_streak_keeps(hs, habit_id, completed) ==
    LET current_streak == hs[habit_id].streak
        max_streak == hs[habit_id].max_streak
        new_streak == IF completed THEN current_streak + 1 ELSE current_streak
        new_max == IF completed THEN Max(max_streak, new_streak) ELSE max_streak
    IN [hs EXCEPT ![habit_id].streak = new_streak, ![habit_id].max_streak = new_max]

\* update_streak that never raises max_streak
update_streak_stale_max(hs, habit_id, completed) ==
    LET current_streak == hs[habit_id].streak
        max_streak == hs[habit_id].max_streak
        new_streak == IF completed THEN current_streak + 1 ELSE 0
    IN [hs EXCEPT ![habit_id].streak = new_streak, ![habit_id].max_streak = max_streak]

\* db.update_streak(habit_id, completed)
update_streak(hs, habit_id, completed) ==
    LET current_streak == hs[habit_id].streak
        max_streak == hs[habit_id].max_streak
        new_streak == IF completed THEN current_streak + 1 ELSE 0
        new_max == IF completed THEN Max(max_streak, new_streak) ELSE max_streak
    IN [hs EXCEPT ![habit_id].streak = new_streak, ![habit_id].max_streak = new_max]

\* rows the UPDATE of update_marathon_points matches
ParticipantRows(parts, user_id, marathon_id) ==
    {p \in parts : p.user_id = user_id /\ p.marathon_id = marathon_id}

\* an update that takes the points off the balance
update_marathon_points_debit(parts, user_id, marathon_id, points) ==
    {IF p \in ParticipantRows(parts, user_id, marathon_id)
     THEN [p EXCEPT !.total_points = @ - points] ELSE p : p \in parts}

\* an update that sets the balance instead of adding to it
update_marathon_points_set(parts, user_id, marathon_id, points) ==
    {IF p \in ParticipantRows(parts, user_id, marathon_id)
     THEN [p EXCEPT !.total_points = points] ELSE p : p \in parts}

\* db.update_marathon_points(user_id, marathon_id, points)
update_marathon_points(parts, user_id, marathon_id, points) ==
    {IF p \in ParticipantRows(parts, user_id, marathon_id)
     THEN [p EXCEPT !.total_points = @ + points] ELSE p : p \in parts}

\* a settlement that wants the goal exceeded
SettledCompletedStrict(hs, logs, h, d) == ValueOn(logs, h, d) > hs[h].daily_goal

\* `completed = value >= goal` of process_end_of_day
SettledCompleted(hs, logs, h, d) == ValueOn(logs, h, d) >= hs[h].daily_goal

\* a credit that does not look at completed
CreditDueAny(hs, logs, h, d) ==
    hs[h].marathon_id # NoMarathon

\* `if habit.get('marathon_id') and completed`
CreditDue(hs, logs, h, d) ==
    hs[h].marathon_id # NoMarathon /\ SettledCompleted(hs, logs, h, d)

\* body of `for habit in habits` for one habit; st = [habits, parts, credited,
\* calls], calls being the store writes of the run in the order they are made
\* a digest whose streak section reports a broken streak for every habit
\* missed today
StreakUpdateAlways(hs, h, completed, new_streak) ==
    IF completed /\ new_streak > 1
    THEN <<[kind |-> "streak_fire", habit_id |-> h, streak |-> new_streak]>>
    ELSE IF ~completed
    THEN <<[kind |-> "streak_lost", habit_id |-> h, streak |-> 0]>>
    ELSE <<>>

\* `if completed and new_streak > 1: ... elif not completed and
\* habit['streak'] > 0: ...` with habit the row read before update_streak
StreakUpdate(hs, h, completed, new_streak) ==
    IF completed /\ new_streak > 1
    THEN <<[kind |-> "streak_fire", habit_id |-> h, streak |-> new_streak]>>
    ELSE IF ~completed /\ hs[h].streak > 0
    THEN <<[kind |-> "streak_lost", habit_id |-> h, streak |-> 0]>>
    ELSE <<>>

\* the line of report_lines for one habit
ReportLine(hs, logs, h, d, completed) ==
    [habit_id |-> h, value |-> ValueOn(logs, h, d), goal |-> hs[h].daily_goal,
     completed |-> completed]

SettleHabit(st, logs, u, h, d) ==
    LET completed == SettledCompleted(st.habits, logs, h, d)
        credit == CreditDue(st.habits, logs, h, d)
        m == st.habits[h].marathon_id
        new_streak == update_streak(st.habits, h, completed)[h].streak
    IN [habits |-> update_streak(st.habits, h, completed),
        report_lines |-> Append(st.report_lines,
                                ReportLine(st.habits, logs, h, d, completed)),
        streak_updates |-> st.streak_updates
                           \o StreakUpdate(st.habits, h, completed, new_streak),
        sent |-> st.sent,
        parts |-> IF credit
                  THEN update_marathon_points(st.parts, u, m, PointsPerGoal)
                  ELSE st.parts,
        credited |-> IF credit /\ ParticipantRows(st.parts, u, m) # {}
                     THEN [st.credited EXCEPT ![h] = @ + PointsPerGoal]
                     ELSE st.credited,
        calls |-> st.calls
                  \o <<[op |-> "update_streak", habit_id |-> h, flag |-> completed]>>
                  \o (IF credit
                      THEN <<[op |-> "update_marathon_points", habit_id |-> h,
                              flag |-> TRUE]>>
                      ELSE <<>>)]

RECURSIVE SettleHabits(_, _, _, _, _)
SettleHabits(st, logs, u, hseq, d) ==
    IF hseq = <<>> THEN st
    ELSE SettleHabits(SettleHabit(st, logs, u, Head(hseq), d), logs, u, Tail(hseq), d)

\* body of `for user in users`: `if not habits: continue`, the loop over the
\* habits, then bot_instance.send_message(user_id, report_text)
SettleUser(st, logs, u, d) ==
    IF get_user_habits(st.habits, u) = {} THEN st
    ELSE LET done == SettleHabits([st EXCEPT !.report_lines = <<>>,
                                             !.streak_updates = <<>>],
                                  logs, u, SetToSeq(get_user_habits(st.habits, u)), d)
         IN [done EXCEPT !.sent = Append(@, [user_id |-> u,
                                             report_lines |-> done.report_lines,
                                             streak_updates |-> done.streak_updates])]

RECURSIVE SettleUsers(_, _, _, _)
SettleUsers(st, logs, useq, d) ==
    IF useq = <<>> THEN st
    ELSE SettleUsers(SettleUser(st, logs, Head(useq), d), logs, Tail(useq), d)

\* process_end_of_day over all users
process_end_of_day(hs, logs, parts, credited, d) ==
    SettleUsers([habits |-> hs, parts |-> parts, credited |-> credited, calls |-> <<>>,
                 report_lines |-> <<>>, streak_updates |-> <<>>, sent |-> <<>>],
                logs, SetToSeq(Users), d)

ProcessEndOfDay ==
    LET res == process_end_of_day(habits, habit_logs, marathon_participants,
                                  credited_today, today)
    IN /\ now % MinutesPerDay = EodMinute
       /\ eod_runs < MaxEodRuns
       /\ habits # <<>>
       /\ eod_runs' = eod_runs + 1
       /\ habits' = res.habits
       /\ marathon_participants' = res.parts
       /\ credited_today' = res.credited
       /\ UNCHANGED <<deployment, host_skew, now, next_habit_id, habit_logs,
                      pending_notifications, next_notif_id, marathon_habits, chat,
                      check_fired, check_error, day_start_streak, logged, sweep,
                      inflight, stats, sending, notification_times, joining>>

\* ------------------------------------------------------------ marathons
\* marathon_habit_type / marathon_habit_goal: one template of the marathon
Template(habit_type, daily_goal) ==
    [habit_type |-> habit_type, daily_goal |-> daily_goal]

\* copies of the templates as habits of the user, ids from next_id on
RECURSIVE CopyTemplates(_, _, _, _)
CopyTemplates(hs, templates, user_id, next_id) ==
    IF templates = <<>> THEN hs
    ELSE CopyTemplates(create_habit(hs, next_id, user_id, Head(templates).habit_type,
                                    Head(templates).daily_goal, MarathonId),
                       Tail(templates), user_id, next_id + 1)

NewParticipant(user_id) ==
    [marathon_id |-> MarathonId, user_id |-> user_id, total_points |-> 0]

\* finalize_marathon: create_marathon (the creator becomes a participant),
\* add_marathon_habit per template, create_habit per template for the creator
FinalizeMarathon(u, habit_type, goal) ==
    /\ marathon_habits = <<>>
    /\ next_habit_id \in HabitIds
    /\ habit_type = "boolean" => goal = 1
    /\ habit_type = "numeric" => goal \in GoalInputs
    /\ marathon_habits' = <<Template(habit_type, goal)>>
    /\ marathon_participants' = marathon_participants \cup {NewParticipant(u)}
    /\ habits' = CopyTemplates(habits, <<Template(habit_type, goal)>>, u, next_habit_id)
    /\ next_habit_id' = next_habit_id + 1
    /\ UNCHANGED <<deployment, host_skew, now, habit_logs, pending_notifications,
                   next_notif_id, chat, check_fired, check_error, eod_runs,
                   day_start_streak, credited_today, logged, sweep, inflight, stats,
                   sending, notification_times, joining>>

\* cmd_start with an invite code: db.join_marathon(user, marathon)
JoinMarathon(u) ==
    /\ marathon_habits # <<>>
    /\ ParticipantRows(marathon_participants, u, MarathonId) = {}
    /\ next_habit_id + Len(marathon_habits) - 1 \in HabitIds
    /\ marathon_participants' = marathon_participants \cup {NewParticipant(u)}
    /\ habits' = CopyTemplates(habits, marathon_habits, u, next_habit_id)
    /\ next_habit_id' = next_habit_id + Len(marathon_habits)
    /\ UNCHANGED <<deployment, host_skew, now, habit_logs, pending_notifications,
                   next_notif_id, marathon_habits, chat, check_fired, check_error,
                   eod_runs, day_start_streak, credited_today, logged, sweep,
                   inflight, stats, sending, notification_times, joining>>

\* join_marathon up to its first await: the SELECT on marathon_participants;
\* an existing row makes it return False
JoinSelect(c, u) ==
    /\ marathon_habits # <<>>
    /\ joining[c].pc = "idle"
    /\ joining' = [joining EXCEPT ![c] =
                      IF ParticipantRows(marathon_participants, u, MarathonId) # {}
                      THEN [pc |-> "idle", user_id |-> u, result |-> "false"]
                      ELSE [pc |-> "insert", user_id |-> u, result |-> "none"]]
    /\ UNCHANGED <<deployment, host_skew, now, habits, next_habit_id, habit_logs,
                   pending_notifications, next_notif_id, marathon_habits,
                   marathon_participants, chat, check_fired, check_error, eod_runs,
                   day_start_streak, credited_today, logged, sweep, inflight, stats,
                   sending, notification_times>>

\* an INSERT on a table without UNIQUE(marathon_id, user_id), whose new row
\* has the next value of the id column
JoinInsertNoUnique(c) ==
    LET u == joining[c].user_id
    IN /\ joining[c].pc = "insert"
       /\ marathon_participants' =
              marathon_participants \cup
                 {IF ParticipantRows(marathon_participants, u, MarathonId) # {}
                  THEN [marathon_id |-> MarathonId, user_id |-> u, total_points |-> 0,
                        id |-> Cardinality(marathon_participants) + 1]
                  ELSE NewParticipant(u)}
       /\ UNCHANGED <<habits, next_habit_id>>
       /\ joining' = [joining EXCEPT ![c].pc = "copy"]
       /\ UNCHANGED <<deployment, host_skew, now, habit_logs, pending_notifications,
                      next_notif_id, marathon_habits, chat, check_fired, check_error,
                      eod_runs, day_start_streak, credited_today, logged, sweep,
                      inflight, stats, sending, notification_times>>

\* the INSERT into marathon_participants: UNIQUE(marathon_id, user_id) raises
\* when a row was committed since the SELECT.  database.py copies the habits
\* and commits in the same transaction; habit_tracker/database.py has no
\* transaction and the copies follow as statements of their own
JoinInsert(c) ==
    LET u == joining[c].user_id
    IN /\ joining[c].pc = "insert"
       /\ IF ParticipantRows(marathon_participants, u, MarathonId) # {}
          THEN /\ joining' = [joining EXCEPT ![c] =
                                 [pc |-> "idle", user_id |-> u, result |-> "raised"]]
               /\ UNCHANGED <<marathon_participants, habits, next_habit_id>>
          ELSE /\ marathon_participants' = marathon_participants \cup {NewParticipant(u)}
               /\ IF deployment = "root"
                  THEN /\ next_habit_id + Len(marathon_habits) - 1 \in HabitIds
                       /\ habits' = CopyTemplates(habits, marathon_habits, u, next_habit_id)
                       /\ next_habit_id' = next_habit_id + Len(marathon_habits)
                       /\ joining' = [joining EXCEPT ![c] =
                                         [pc |-> "idle", user_id |-> u, result |-> "true"]]
                  ELSE /\ UNCHANGED <<habits, next_habit_id>>
                       /\ joining' = [joining EXCEPT ![c].pc = "copy"]
       /\ UNCHANGED <<deployment, host_skew, now, habit_logs, pending_notifications,
                      next_notif_id, marathon_habits, chat, check_fired, check_error,
                      eod_runs, day_start_streak, credited_today, logged, sweep,
                      inflight, stats, sending, notification_times>>

\* habit_tracker/database.py: the SELECT on marathon_habits and the INSERTs
\* into habits, then `return True`
JoinCopy(c) ==
    LET u == joining[c].user_id
    IN /\ joining[c].pc = "copy"
       /\ next_habit_id + Len(marathon_habits) - 1 \in HabitIds
       /\ habits' = CopyTemplates(habits, marathon_habits, u, next_habit_id)
       /\ next_habit_id' = next_habit_id + Len(marathon_habits)
       /\ joining' = [joining EXCEPT ![c] =
                         [pc |-> "idle", user_id |-> u, result |-> "true"]]
       /\ UNCHANGED <<deployment, host_skew, now, habit_logs, pending_notifications,
                      next_notif_id, marathon_habits, marathon_participants, chat,
                      check_fired, check_error, eod_runs, day_start_streak,
                      credited_today, logged, sweep, inflight, stats, sending,
                      notification_times>>

MarathonHabitsOf(hs, u) ==
    {h \in DOMAIN hs : hs[h].user_id = u /\ hs[h].marathon_id = MarathonId}

\* a leave that deletes the participant row and leaves the habits linked
LeaveMarathonOnlyRow(u, keep_habits) ==
    /\ ParticipantRows(marathon_participants, u, MarathonId) # {}
    /\ marathon_participants' =
           marathon_participants \ ParticipantRows(marathon_participants, u, MarathonId)
    /\ UNCHANGED <<deployment, host_skew, now, habits, next_habit_id, habit_logs,
                   pending_notifications, next_notif_id, marathon_habits, chat,
                   check_fired, check_error, eod_runs, day_start_streak,
                   credited_today, logged, sweep, inflight, stats, sending,
                   notification_times, joining>>

\* leave_marathon_execute: db.leave_marathon(user, marathon, keep_habits)
LeaveMarathonExecute(u, keep_habits) ==
    LET mine == MarathonHabitsOf(habits, u)
    IN /\ ParticipantRows(marathon_participants, u, MarathonId) # {}
       /\ marathon_participants' =
              marathon_participants \ ParticipantRows(marathon_participants, u, MarathonId)
       /\ IF keep_habits
          THEN /\ habits' = [h \in DOMAIN habits |->
                               IF h \in mine THEN [habits[h] EXCEPT !.marathon_id = NoMarathon]
                               ELSE habits[h]]
               /\ UNCHANGED <<habit_logs, pending_notifications, logged>>
          ELSE /\ habits' = DeleteHabits(habits, mine)
               /\ habit_logs' = DeleteLogs(habit_logs, mine)
               /\ pending_notifications' =
                      CascadePending(deployment, pending_notifications, mine)
               /\ logged' = ForgetLogged(logged, mine)
       /\ UNCHANGED <<deployment, host_skew, now, next_habit_id, next_notif_id,
                      marathon_habits, chat, check_fired, check_error, eod_runs,
                      day_start_streak, credited_today, sweep, inflight, stats,
                      sending, notification_times, joining>>

\* ------------------------------------------- interleaved executions
\* Every `await` of a coroutine lets the event loop run another handler or
\* job.  The actions below run log_habit and check_expired_notifications in
\* the steps their awaits cut them into; the actions above run them whole.

\* a log handler up to the two SELECTs of log_habit
LogHabitBegin(h, value) ==
    /\ h \in DOMAIN habits
    /\ value \in (IF habits[h].habit_type = "boolean" THEN BoolButtons
                  ELSE QuickButtons \cup CustomInputs)
    /\ ~inflight[habits[h].user_id].active
    /\ ValueInRange(ValueOn(habit_logs, h, today) + value)
    /\ inflight' = [inflight EXCEPT ![habits[h].user_id] =
                       [active |-> TRUE, habit_id |-> h, value |-> value,
                        snap |-> LogSnapshot(habits, habit_logs, h, today)]]
    /\ UNCHANGED <<deployment, host_skew, now, habits, next_habit_id, habit_logs,
                   pending_notifications, next_notif_id, marathon_habits,
                   marathon_participants, chat, check_fired, check_error, eod_runs,
                   day_start_streak, credited_today, logged, sweep, stats, sending,
                   notification_times, joining>>

\* the UPDATE/INSERT of log_habit and, when it did not raise,
\* mark_notification_responded
LogHabitEnd(u) ==
    LET c == inflight[u]
        res == LogApply(deployment, habits, habit_logs, c.snap, c.habit_id, u,
                        c.value, today)
    IN /\ c.active
       /\ inflight' = [inflight EXCEPT ![u] = NoCall]
       /\ habit_logs' = res.logs
       /\ logged' = IF c.habit_id \in DOMAIN habits
                    THEN [logged EXCEPT ![<<c.habit_id, today>>] = @ + c.value]
                    ELSE logged
       /\ pending_notifications' =
              IF res.ok THEN mark_notification_responded(pending_notifications, u, c.habit_id)
              ELSE pending_notifications
       /\ UNCHANGED <<deployment, host_skew, now, habits, next_habit_id, next_notif_id,
                      marathon_habits, marathon_participants, chat, check_fired,
                      check_error, eod_runs, day_start_streak, credited_today, sweep,
                      stats, sending, notification_times, joining>>

\* expired = await db.get_expired_notifications()
SweepSelect ==
    /\ sweep.pc = "idle"
    /\ sweep' = [SweepIdle EXCEPT !.pc = "loop",
                    !.expired = get_expired_notifications(pending_notifications,
                                    StoreNow(deployment, host_skew, now))]
    /\ UNCHANGED <<deployment, host_skew, now, habits, next_habit_id, habit_logs,
                   pending_notifications, next_notif_id, marathon_habits,
                   marathon_participants, chat, check_fired, check_error, eod_runs,
                   day_start_streak, credited_today, logged, inflight, stats,
                   sending, notification_times, joining>>

\* top of `for notif in expired`: delete the message, read the habits and
\* their logs of today
SweepNotif ==
    LET n == Head(sweep.expired)
    IN /\ sweep.pc = "loop"
       /\ sweep.expired # <<>>
       /\ chat' = DeleteMessage(chat, n)
       /\ sweep' = [sweep EXCEPT !.pc = "fill",
                       !.processed = @ \cup {n.id},
                       !.todo = SweepTodo(deployment, habits, habit_logs, n, today)]
       /\ UNCHANGED <<deployment, host_skew, now, habits, next_habit_id, habit_logs,
                      pending_notifications, next_notif_id, marathon_habits,
                      marathon_participants, check_fired, check_error, eod_runs,
                      day_start_streak, credited_today, logged, inflight, stats,
                      sending, notification_times, joining>>

\* the two SELECTs of log_habit(habit, user, 0)
SweepLogRead ==
    /\ sweep.pc = "fill"
    /\ sweep.todo # <<>>
    /\ sweep' = [sweep EXCEPT !.pc = "write",
                    !.snap = LogSnapshot(habits, habit_logs, Head(sweep.todo), today)]
    /\ UNCHANGED <<deployment, host_skew, now, habits, next_habit_id, habit_logs,
                   pending_notifications, next_notif_id, marathon_habits,
                   marathon_participants, chat, check_fired, check_error, eod_runs,
                   day_start_streak, credited_today, logged, inflight, stats,
                   sending, notification_times, joining>>

\* the UPDATE/INSERT of log_habit(habit, user, 0); an exception ends the
\* work on this row
SweepLogWrite ==
    LET n == Head(sweep.expired)
        res == LogApply(deployment, habits, habit_logs, sweep.snap, Head(sweep.todo),
                        n.user_id, 0, today)
    IN /\ sweep.pc = "write"
       /\ habit_logs' = res.logs
       /\ sweep' = [sweep EXCEPT !.pc = "fill",
                       !.todo = IF res.ok THEN Tail(@) ELSE <<>>,
                       !.snap = SweepIdle.snap]
       /\ UNCHANGED <<deployment, host_skew, now, habits, next_habit_id,
                      pending_notifications, next_notif_id, marathon_habits,
                      marathon_participants, chat, check_fired, check_error, eod_runs,
                      day_start_streak, credited_today, logged, inflight, stats,
                      sending, notification_times, joining>>

\* end of the body of `for notif in expired`
SweepNextRow ==
    /\ sweep.pc = "fill"
    /\ sweep.todo = <<>>
    /\ sweep' = [sweep EXCEPT !.pc = "loop", !.expired = Tail(@)]
    /\ UNCHANGED <<deployment, host_skew, now, habits, next_habit_id, habit_logs,
                   pending_notifications, next_notif_id, marathon_habits,
                   marathon_participants, chat, check_fired, check_error, eod_runs,
                   day_start_streak, credited_today, logged, inflight, stats,
                   sending, notification_times, joining>>

\* await db.delete_expired_notifications()
SweepDelete ==
    /\ sweep.pc = "loop"
    /\ sweep.expired = <<>>
    /\ pending_notifications' = delete_expired_notifications(pending_notifications,
                                    StoreNow(deployment, host_skew, now))
    /\ sweep' = SweepIdle
    /\ UNCHANGED <<deployment, host_skew, now, habits, next_habit_id, habit_logs,
                   next_notif_id, marathon_habits, marathon_participants, chat,
                   check_fired, check_error, eod_runs, day_start_streak,
                   credited_today, logged, inflight, stats, sending,
                   notification_times, joining>>

\* ----------------------------------------------------------------- Next
Next ==
    \/ Tick(CheckMinutes \cup EodMinutes)
    \/ \E u \in Users, t \in HabitTypes, g \in GoalInputs \cup {1} :
          HabitCategorySelected(u, t, g)
    \/ \E h \in HabitIds, g \in GoalInputs : EditHabitGoalDone(h, g)
    \/ \E h \in HabitIds : DeleteHabitConfirmed(h)
    \/ \E h \in HabitIds, v \in BoolButtons : LogBoolean(h, v)
    \/ \E h \in HabitIds, v \in QuickButtons : LogNumeric(h, v)
    \/ \E h \in HabitIds, v \in CustomInputs : LogCustomValue(h, v)
    \/ \E h \in HabitIds, v \in BoolButtons \cup QuickButtons : NotificationResponse(h, v)
    \/ \E t \in CheckTimes, lost \in SUBSET Users, first \in [Users -> HabitIds \cup {0}] :
          CheckNotificationsForTime(t, lost, first)
    \/ \E lost \in SUBSET Users : TestNotification(lost)
    \/ CheckExpiredNotifications
    \/ ProcessEndOfDay
    \/ \E u \in Creators, t \in HabitTypes, g \in GoalInputs \cup {1} :
          FinalizeMarathon(u, t, g)
    \/ \E u \in Users : JoinMarathon(u)
    \/ \E u \in Users, keep \in BOOLEAN : LeaveMarathonExecute(u, keep)

Spec == Init /\ [][Next]_vars

\* The habits, their logs and the settlement of the day.  None of these
\* handlers reads the ledger or the chat.
NextSettlement ==
    \/ Tick(EodMinutes)
    \/ \E u \in Users, t \in HabitTypes, g \in GoalInputs \cup {1} :
          HabitCategorySelected(u, t, g)
    \/ \E h \in HabitIds, g \in GoalInputs : EditHabitGoalDone(h, g)
    \/ \E h \in HabitIds : DeleteHabitConfirmed(h)
    \/ \E h \in HabitIds, v \in BoolButtons : LogBoolean(h, v)
    \/ \E h \in HabitIds, v \in QuickButtons : LogNumeric(h, v)
    \/ \E h \in HabitIds, v \in CustomInputs : LogCustomValue(h, v)
    \/ ProcessEndOfDay

\* process_end_of_day and the habit handlers are the same code in both
\* deployments
InitSettlement == Init /\ deployment = "habit_tracker"

SpecSettlement == InitSettlement /\ [][NextSettlement]_vars

\* The marathons: habits created by hand and by joining, their logs, the
\* settlement that credits them, and leaving.
NextMarathon ==
    \/ Tick(EodMinutes)
    \/ \E u \in Users, t \in HabitTypes, g \in GoalInputs \cup {1} :
          HabitCategorySelected(u, t, g)
    \/ \E h \in HabitIds : DeleteHabitConfirmed(h)
    \/ \E h \in HabitIds, v \in BoolButtons : LogBoolean(h, v)
    \/ \E h \in HabitIds, v \in QuickButtons : LogNumeric(h, v)
    \/ \E h \in HabitIds, v \in CustomInputs : LogCustomValue(h, v)
    \/ ProcessEndOfDay
    \/ \E u \in Creators, t \in HabitTypes, g \in GoalInputs \cup {1} :
          FinalizeMarathon(u, t, g)
    \/ \E u \in Users : JoinMarathon(u)
    \/ \E u \in Users, keep \in BOOLEAN : LeaveMarathonExecute(u, keep)

SpecMarathon == InitSettlement /\ [][NextMarathon]_vars

\* The notification ledger as the scheduler drives it: the issuer, the
\* responses, the sweep, and the handlers that create, log and delete the
\* habits they read.
NextLedger ==
    \/ Tick(CheckMinutes)
    \/ \E u \in Users, t \in HabitTypes, g \in GoalInputs \cup {1} :
          HabitCategorySelected(u, t, g)
    \/ \E h \in HabitIds : DeleteHabitConfirmed(h)
    \/ \E h \in HabitIds, v \in BoolButtons : LogBoolean(h, v)
    \/ \E h \in HabitIds, v \in QuickButtons : LogNumeric(h, v)
    \/ \E h \in HabitIds, v \in CustomInputs : LogCustomValue(h, v)
    \/ \E h \in HabitIds, v \in BoolButtons \cup QuickButtons : NotificationResponse(h, v)
    \/ \E t \in CheckTimes, lost \in SUBSET Users, first \in [Users -> HabitIds \cup {0}] :
          CheckNotificationsForTime(t, lost, first)
    \/ CheckExpiredNotifications

SpecLedger == Init /\ [][NextLedger]_vars

\* The ledger under habit_tracker/scheduler.py and habit_tracker/database.py;
\* its prompts carry log_habits_keyboard, never the notif_resp buttons
InitConsolidated == Init /\ deployment = "habit_tracker"

NextConsolidated ==
    \/ Tick(CheckMinutes)
    \/ \E u \in Users, t \in HabitTypes, g \in GoalInputs \cup {1} :
          HabitCategorySelected(u, t, g)
    \/ \E h \in HabitIds : DeleteHabitConfirmed(h)
    \/ \E h \in HabitIds, v \in BoolButtons : LogBoolean(h, v)
    \/ \E h \in HabitIds, v \in QuickButtons : LogNumeric(h, v)
    \/ \E h \in HabitIds, v \in CustomInputs : LogCustomValue(h, v)
    \/ \E t \in CheckTimes, lost \in SUBSET Users, first \in [Users -> HabitIds \cup {0}] :
          CheckNotificationsForTime(t, lost, first)
    \/ CheckExpiredNotifications

SpecConsolidated == InitConsolidated /\ [][NextConsolidated]_vars

\* Two days of one user with one numeric habit of a large goal, under
\* habit_tracker: the check of 08:00, the sweep and the settlement of 23:59
\* of each day, with a gateway that delivers
NextTwoDays ==
    \/ TickTo(CheckMinutes \cup EodMinutes, TwoDays)
    \/ \E u \in Users : habits = <<>> /\ HabitCategorySelected(u, "numeric", LargeGoal)
    \/ \E h \in HabitIds, v \in QuickButtons \cup CustomInputs :
          /\ h \in DOMAIN habits
          /\ LogAndMarkUpTo(h, v, LargeGoal)
    \/ \E t \in CheckTimes, first \in [Users -> HabitIds \cup {0}] :
          CheckNotificationsForTime(t, {}, first)
    \/ CheckExpiredNotifications
    \/ ProcessEndOfDay

SpecTwoDays == InitConsolidated /\ [][NextTwoDays]_vars

\* The ledger over a day with two of the check times of setup_scheduler
\* (`for hour in notification_hours`), so that a check follows a sweep
RecheckTimes == {"08:00", "14:00"}

NextRecheck ==
    \/ TickTo({CheckMinute(c) : c \in RecheckTimes}, MaxTime)
    \/ \E u \in Users, t \in HabitTypes, g \in GoalInputs \cup {1} :
          HabitCategorySelected(u, t, g)
    \/ \E h \in HabitIds, v \in BoolButtons \ {0} : LogBoolean(h, v)
    \/ \E h \in HabitIds, v \in QuickButtons : LogNumeric(h, v)
    \/ \E t \in RecheckTimes, lost \in SUBSET Users, first \in [Users -> HabitIds \cup {0}] :
          CheckNotificationsForTime(t, lost, first)
    \/ CheckExpiredNotifications

SpecRecheck == Init /\ [][NextRecheck]_vars

\* The ledger under habit_tracker with store errors in the check job
NextLedgerFaults ==
    \/ NextConsolidated
    \/ \E t \in CheckTimes, k \in 1..Cardinality(Users), first \in [Users -> HabitIds \cup {0}] :
          CheckNotificationsStoreError(t, k, first)

SpecLedgerFaults == InitConsolidated /\ [][NextLedgerFaults]_vars

\* Settlement next to the ledger: the last check of the day, the sweep and
\* process_end_of_day
EveningTimes == {"21:00"}

NextSettleLedger ==
    \/ Tick({CheckMinute(c) : c \in EveningTimes} \cup EodMinutes)
    \/ \E u \in Users, t \in HabitTypes, g \in GoalInputs \cup {1} :
          HabitCategorySelected(u, t, g)
    \/ \E h \in HabitIds, v \in BoolButtons \ {0} : LogBoolean(h, v)
    \/ \E h \in HabitIds, v \in QuickButtons : LogNumeric(h, v)
    \/ \E t \in EveningTimes, lost \in SUBSET Users, first \in [Users -> HabitIds \cup {0}] :
          CheckNotificationsForTime(t, lost, first)
    \/ CheckExpiredNotifications
    \/ ProcessEndOfDay

SpecSettleLedger == Init /\ [][NextSettleLedger]_vars

\* The log handlers with the texts typed into log_custom_value
NextTyped ==
    \/ Tick(EodMinutes)
    \/ \E u \in Users, t \in HabitTypes, g \in GoalInputs \cup {1} :
          HabitCategorySelected(u, t, g)
    \/ \E h \in HabitIds, v \in BoolButtons : LogBoolean(h, v)
    \/ \E h \in HabitIds, v \in QuickButtons : LogNumeric(h, v)
    \/ \E h \in HabitIds, text \in TypedTexts : LogCustomText(h, text)
    \/ ProcessEndOfDay

SpecTyped == InitSettlement /\ [][NextTyped]_vars

\* The ledger under habit_tracker with goals edited between the log and the
\* sweep
NextSweepGoals ==
    \/ Tick(CheckMinutes)
    \/ \E u \in Users, t \in HabitTypes, g \in GoalInputs \cup {1} :
          HabitCategorySelected(u, t, g)
    \/ \E h \in HabitIds, g \in GoalInputs : EditHabitGoalDone(h, g)
    \/ \E h \in HabitIds, v \in BoolButtons \ {0} : LogBoolean(h, v)
    \/ \E h \in HabitIds, v \in QuickButtons : LogNumeric(h, v)
    \/ \E t \in CheckTimes, first \in [Users -> HabitIds \cup {0}] :
          CheckNotificationsForTime(t, {}, first)
    \/ CheckExpiredNotifications

SpecSweepGoals == InitConsolidated /\ [][NextSweepGoals]_vars

\* send_consolidated_notification / send_habit_notification up to the return
\* of bot_instance.send_message: the prompt is in the chat, the coroutine is
\* suspended before create_pending_notification.  first is the habit the
\* row will reference (uncompleted_habits[0], or the habit of the prompt).
SendPromptBegin(u, first) ==
    LET uncompleted == Uncompleted(habits, habit_logs, u, today)
        p == IF deployment = "habit_tracker"
             THEN ConsolidatedPrompt(u, uncompleted, first)[1]
             ELSE PerHabitPrompts(u, <<first>>)[1]
    IN /\ now % MinutesPerDay \in CheckMinutes
       /\ ~sending.active
       /\ first \in uncompleted
       /\ next_notif_id <= MaxNotifs
       /\ \A m \in chat : ~(m.user_id = u /\ first \in m.habits)
       /\ chat' = chat \cup {ChatMessage(p, next_notif_id)}
       /\ next_notif_id' = next_notif_id + 1
       /\ sending' = [active |-> TRUE, id |-> next_notif_id, user_id |-> u,
                      habit_id |-> first, message_id_stored |-> p.message_id_stored]
       /\ UNCHANGED <<deployment, host_skew, now, habits, next_habit_id, habit_logs,
                      pending_notifications, marathon_habits, marathon_participants,
                      check_fired, check_error, eod_runs, day_start_streak,
                      credited_today, logged, sweep, inflight, stats,
                      notification_times, joining>>

\* create_pending_notification after the send: the INSERT, which raises
\* under habit_tracker when habits has no row for habit_id any more
\* (habit_id REFERENCES habits(id)); `except Exception` prints and returns
SendPromptStore ==
    /\ sending.active
    /\ pending_notifications' =
           IF deployment = "habit_tracker" /\ sending.habit_id \notin DOMAIN habits
           THEN pending_notifications
           ELSE pending_notifications \cup
                   {LedgerRow(sending, sending.id,
                              StoreNow(deployment, host_skew, now), now)}
    /\ sending' = NoSend
    /\ UNCHANGED <<deployment, host_skew, now, habits, next_habit_id, habit_logs,
                   next_notif_id, marathon_habits, marathon_participants, chat,
                   check_fired, check_error, eod_runs, day_start_streak,
                   credited_today, logged, sweep, inflight, stats,
                   notification_times, joining>>

\* The issuer split at the await of send_message, next to the handlers that
\* create and delete habits
NextConcIssue ==
    \/ Tick(CheckMinutes)
    \/ \E u \in Users, t \in HabitTypes, g \in GoalInputs \cup {1} :
          HabitCategorySelected(u, t, g)
    \/ \E h \in HabitIds : DeleteHabitConfirmed(h)
    \/ \E u \in Users, first \in HabitIds : SendPromptBegin(u, first)
    \/ SendPromptStore

SpecConcIssue == Init /\ [][NextConcIssue]_vars

\* edit_notifications, toggle_notification_time for each button of toggled,
\* save_notification_times: selected_times starts as the stored list, every
\* toggle removes the time when it is in the list and appends it when not,
\* and the save refuses an empty list
SaveNotificationTimes(u, toggled) ==
    LET current == get_user_notification_times(u)
        times == (current \ toggled) \cup (toggled \ current)
    IN /\ toggled \subseteq available_times
       /\ times # {}
       /\ notification_times' = [notification_times EXCEPT ![u] = times]
       /\ UNCHANGED <<deployment, host_skew, now, habits, next_habit_id, habit_logs,
                      pending_notifications, next_notif_id, marathon_habits,
                      marathon_participants, chat, check_fired, check_error, eod_runs,
                      day_start_streak, credited_today, logged, sweep, inflight, stats,
                      sending, joining>>

\* The settings of the users: sessions that press one button and save, with
\* lists no longer than the default one
NextTimes ==
    \E u \in Users, t \in available_times :
        /\ Cardinality((notification_times[u] \ {t}) \cup ({t} \ notification_times[u]))
              <= Cardinality(DefaultNotificationTimes)
        /\ SaveNotificationTimes(u, {t})

SpecTimes == InitConsolidated /\ [][NextTimes]_vars

\* Membership of the marathon under both deployments: creating it, joining,
\* leaving in both modes, personal habits beside the copies, deleting a
\* habit, the yes button and the settlement
NextParticipation ==
    \/ Tick(EodMinutes)
    \/ \E u \in Users : HabitCategorySelected(u, "boolean", 1)
    \/ \E h \in HabitIds : DeleteHabitConfirmed(h)
    \/ \E h \in HabitIds, v \in BoolButtons \ {0} : LogBoolean(h, v)
    \/ ProcessEndOfDay
    \/ \E u \in Creators, t \in HabitTypes, g \in GoalInputs \cup {1} :
          FinalizeMarathon(u, t, g)
    \/ \E u \in Users : JoinMarathon(u)
    \/ \E u \in Users, keep \in BOOLEAN : LeaveMarathonExecute(u, keep)

SpecParticipation == Init /\ [][NextParticipation]_vars

\* Two cmd_start coroutines of an invited user, interleaved at the awaits of
\* join_marathon, beside the settlement that gives the rows their points and
\* a leave of that user between joins
NextConcJoin ==
    \/ Tick(EodMinutes)
    \/ \E u \in Creators : FinalizeMarathon(u, "boolean", 1)
    \/ \E h \in HabitIds, v \in BoolButtons \ {0} : LogBoolean(h, v)
    \/ ProcessEndOfDay
    \/ \E c \in JoinCalls, u \in Users \ Creators : JoinSelect(c, u)
    \/ \E c \in JoinCalls : JoinInsert(c)
    \/ \E c \in JoinCalls : JoinCopy(c)
    \/ \E u \in Users \ Creators, keep \in BOOLEAN :
          /\ \A c \in JoinCalls : joining[c].pc = "idle"
          /\ LeaveMarathonExecute(u, keep)

SpecConcJoin == Init /\ [][NextConcJoin]_vars

\* The end of the day under habit_tracker for users who add the last time of
\* the keyboard to their list: the check of 22:00, the sweep and the
\* settlement of 23:59
LastCheckTime == FormatHour(CHOOSE hour \in notification_hours :
                               \A other \in notification_hours : other <= hour)

NextLateCheck ==
    \/ Tick({CheckMinute(LastCheckTime)} \cup EodMinutes)
    \/ \E u \in Users : HabitCategorySelected(u, "boolean", 1)
    \/ \E u \in Users : /\ LastCheckTime \notin notification_times[u]
                        /\ SaveNotificationTimes(u, {LastCheckTime})
    \/ \E h \in HabitIds, v \in BoolButtons \ {0} : LogBoolean(h, v)
    \/ \E lost \in SUBSET Users, first \in [Users -> HabitIds \cup {0}] :
          CheckNotificationsForTime(LastCheckTime, lost, first)
    \/ CheckExpiredNotifications
    \/ ProcessEndOfDay

SpecLateCheck == InitConsolidated /\ [][NextLateCheck]_vars

\* Handlers of one process interleaved at their awaits: a log_habit call
\* suspended between its SELECTs and its write, next to the deletion of
\* habits
NextConcDelete ==
    \/ \E u \in Users, t \in HabitTypes, g \in GoalInputs \cup {1} :
          HabitCategorySelected(u, t, g)
    \/ \E h \in HabitIds : DeleteHabitConfirmed(h)
    \/ \E h \in HabitIds, v \in BoolButtons \cup QuickButtons \cup CustomInputs :
          LogHabitBegin(h, v)
    \/ \E u \in Users : LogHabitEnd(u)

SpecConcDelete == Init /\ [][NextConcDelete]_vars

\* ------------------------------------------------------------ analytics
\* round(x, ndigits) of a quotient num / den scaled to an integer: the
\* nearest one, the even one of two equally near (an exact tie has a power
\* of two as denominator, so the float is the tie itself)
RoundHalfEven(num, den) ==
    LET q == num \div den
        r == num % den
    IN IF 2 * r < den THEN q
       ELSE IF 2 * r > den THEN q + 1
       ELSE IF q % 2 = 0 THEN q ELSE q + 1

\* SELECT * FROM habit_logs WHERE habit_id = ? AND log_date BETWEEN ? AND ?
LogsBetween(logs, habit_id, start_date, end_date) ==
    {r \in logs : r.habit_id = habit_id
                   /\ r.log_date >= start_date /\ r.log_date <= end_date}

\* ... ORDER BY log_date
RECURSIVE OrderByLogDate(_)
OrderByLogDate(rows) ==
    IF rows = {} THEN <<>>
    ELSE LET first == CHOOSE r \in rows : \A o \in rows : r.log_date <= o.log_date
         IN <<first>> \o OrderByLogDate(rows \ {first})

\* sum(log['value'] for log in logs)
RECURSIVE SumValues(_)
SumValues(logs) == IF logs = <<>> THEN 0 ELSE Head(logs).value + SumValues(Tail(logs))

\* max(...) that keeps the last of the equal candidates
RECURSIVE MaxByValueLast(_)
MaxByValueLast(logs) ==
    IF Len(logs) = 1 THEN logs[1]
    ELSE LET best == MaxByValueLast(Tail(logs))
         IN IF Head(logs).value > best.value THEN Head(logs) ELSE best

\* max(logs, key=lambda x: x['value']): the first of the largest, in the
\* order of the list
RECURSIVE MaxByValue(_)
MaxByValue(logs) ==
    IF Len(logs) = 1 THEN logs[1]
    ELSE LET best == MaxByValue(Tail(logs))
         IN IF Head(logs).value >= best.value THEN Head(logs) ELSE best

\* `best_day = ... if logs else None`
NoLog == [habit_id |-> 0]

\* get_habit_stats with a divisor one day short of the period
TotalDaysExclusive(start_date, end_date) == end_date - start_date

\* `total_days = (end_date - start_date).days + 1`
TotalDays(start_date, end_date) == end_date - start_date + 1

\* get_habit_stats.  efficiency is in tenths (714 is 71.4) and average in
\* hundredths, the digits round() keeps.
get_habit_stats(hs, logs, habit_id, start_date, end_date) ==
    LET found == OrderByLogDate(LogsBetween(logs, habit_id, start_date, end_date))
        total_days == TotalDays(start_date, end_date)
        completed == Cardinality({i \in 1..Len(found) : found[i].completed # 0})
    IN IF hs[habit_id].habit_type = "boolean"
       THEN [habit_id |-> habit_id, start_date |-> start_date, end_date |-> end_date,
             total_days |-> total_days,
             completed_days |-> completed,
             missed_days |-> total_days - completed,
             efficiency |-> IF total_days > 0
                            THEN RoundHalfEven(completed * 100 * 10, total_days)
                            ELSE 0,
             logs |-> found]
       ELSE [habit_id |-> habit_id, start_date |-> start_date, end_date |-> end_date,
             total_days |-> total_days,
             total_value |-> SumValues(found),
             average |-> IF total_days > 0
                         THEN RoundHalfEven(SumValues(found) * 100, total_days)
                         ELSE 0,
             best_day |-> IF found # <<>> THEN MaxByValue(found) ELSE NoLog,
             completed_days |-> completed,
             logs |-> found]

\* generate_and_send_stats for one habit over a period; process_custom_end
\* refuses end_date < start_date and every other caller builds the period
\* forwards.  The call reads and writes nothing.
GetHabitStats(h, start_date, end_date) ==
    /\ h \in DOMAIN habits
    /\ start_date <= end_date
    /\ stats' = get_habit_stats(habits, habit_logs, h, start_date, end_date)
    /\ UNCHANGED <<deployment, host_skew, now, habits, next_habit_id, habit_logs,
                   pending_notifications, next_notif_id, marathon_habits,
                   marathon_participants, chat, check_fired, check_error, eod_runs,
                   day_start_streak, credited_today, logged, sweep, inflight,
                   sending, notification_times, joining>>

\* A store with a history: the logs one habit of one user collected over the
\* days up to today, each day without a row or with the row log_habit
\* leaves for a value
HistoryDates(days) == (2 - days)..1

HistoryLogs(h, u, goal, day_value) ==
    {[habit_id |-> h, user_id |-> u, log_date |-> d, value |-> day_value[d],
      completed |-> CompletedFlag(day_value[d], goal)] :
        d \in {x \in DOMAIN day_value : day_value[x] >= 0}}

InitHistory(habit_type, goal, days, values) ==
    /\ deployment \in Deployments
    /\ host_skew = 0
    /\ now = 0
    /\ habits = create_habit(<<>>, 1, 1, habit_type, goal, NoMarathon)
    /\ next_habit_id = 2
    /\ habit_logs \in {HistoryLogs(1, 1, goal, f) :
                            f \in [HistoryDates(days) -> values \cup {0 - 1}]}
    /\ pending_notifications = {}
    /\ next_notif_id = 1
    /\ marathon_habits = <<>>
    /\ marathon_participants = {}
    /\ chat = {}
    /\ check_fired = FALSE
    /\ check_error = 0
    /\ eod_runs = 0
    /\ day_start_streak = [h \in HabitIds |-> 0]
    /\ credited_today = [h \in HabitIds |-> 0]
    /\ logged = [k \in HabitIds \X Days |-> 0]
    /\ sweep = SweepIdle
    /\ inflight = [u \in Users |-> NoCall]
    /\ stats = NoStats
    /\ sending = NoSend
    /\ notification_times = [u \in Users |-> DefaultNotificationTimes]
    /\ joining = [c \in JoinCalls |-> NoJoin]

\* The statistics of a boolean habit over a week of history; a day of the
\* past was answered with 'done' or has no row, today takes both buttons
InitBooleanWeek == InitHistory("boolean", 1, WeekLength, BoolButtons \ {0})

NextBooleanStats ==
    \/ \E h \in HabitIds, v \in BoolButtons : LogBoolean(h, v)
    \/ \E h \in HabitIds, s, e \in HistoryDates(WeekLength) : GetHabitStats(h, s, e)

SpecBooleanStats == InitBooleanWeek /\ [][NextBooleanStats]_vars

\* The statistics of a numeric habit over a few days of history
InitNumericDays == InitHistory("numeric", MaxValue, MaxStatDays, 0..MaxValue)

NextNumericStats ==
    \/ \E h \in HabitIds, v \in QuickButtons : LogNumeric(h, v)
    \/ \E h \in HabitIds, s, e \in HistoryDates(MaxStatDays) : GetHabitStats(h, s, e)

SpecNumericStats == InitNumericDays /\ [][NextNumericStats]_vars

\* Habits whose goals are typed texts, their logs and the settlement
NextGoals ==
    \/ Tick(EodMinutes)
    \/ \E u \in Users : HabitCategorySelected(u, "boolean", 1)
    \/ \E u \in Users, text \in TypedTexts : HabitGoalReceived(u, text)
    \/ \E h \in HabitIds, text \in TypedTexts : EditHabitGoalText(h, text)
    \/ \E h \in HabitIds, v \in BoolButtons : LogBoolean(h, v)
    \/ \E h \in HabitIds, v \in QuickButtons : LogNumeric(h, v)
    \/ ProcessEndOfDay

SpecGoals == InitSettlement /\ [][NextGoals]_vars

\* The ledger with the administrator's /test_notif as one more issuer
NextLedgerTest ==
    \/ NextLedger
    \/ \E lost \in SUBSET Users : TestNotification(lost)

SpecLedgerTest == Init /\ [][NextLedgerTest]_vars

\* handlers, issuer and sweep with their awaits as interleaving points
NextConc ==
    \/ Tick(CheckMinutes)
    \/ \E u \in Users, t \in HabitTypes, g \in GoalInputs \cup {1} :
          HabitCategorySelected(u, t, g)
    \/ \E t \in CheckTimes, lost \in SUBSET Users, first \in [Users -> HabitIds \cup {0}] :
          CheckNotificationsForTime(t, lost, first)
    \/ \E h \in HabitIds, v \in BoolButtons \cup QuickButtons \cup CustomInputs :
          LogHabitBegin(h, v)
    \/ \E u \in Users : LogHabitEnd(u)
    \/ SweepSelect
    \/ SweepNotif
    \/ SweepLogRead
    \/ SweepLogWrite
    \/ SweepNextRow
    \/ SweepDelete

SpecConc == Init /\ [][NextConc]_vars

\* The interleaved sweep and handlers under habit_tracker/scheduler.py and
\* habit_tracker/database.py
SpecConcConsolidated == InitConsolidated /\ [][NextConc]_vars
\* ------------------------------------------------------------ properties

\* C1: for every habit max_streak >= streak, whatever create_habit,
\* update_habit, update_streak and join_marathon have written.
C1_MaxStreakBound ==
    \A h \in DOMAIN habits : habits[h].max_streak >= habits[h].streak

\* a habit that came from joining a marathon and has been settled twice: its
\* streak was counted by update_streak on top of join_marathon's row
C1_Witness ==
    \E h \in DOMAIN habits :
        /\ habits[h].marathon_id # NoMarathon
        /\ habits[h].user_id \notin Creators
        /\ habits[h].streak = 2
        /\ habits[h].max_streak = 2

\* C2: at most one habit_logs row per (habit, date), and its value is the sum
\* of the deltas logged for that habit on that date.
C2_OneRowSumOfDeltas ==
    \A h \in HabitIds, d \in Days :
        /\ Cardinality(LogRows(habit_logs, h, d)) <= 1
        /\ ValueOn(habit_logs, h, d) = logged[<<h, d>>]

\* a yes/no habit logged twice on one day: the row holds 1 + 1
C2_Witness ==
    \E r \in habit_logs :
        /\ r.habit_id \in DOMAIN habits
        /\ habits[r.habit_id].habit_type = "boolean"
        /\ r.value = 2
        /\ logged[<<r.habit_id, r.log_date>>] = 2

\* C3: the completed flag stored in a habit_logs row equals
\* (value >= daily_goal) for the goal the habit has now, also after the goal
\* was edited.
C3_CompletedMatchesGoal ==
    \A r \in habit_logs :
        r.habit_id \in DOMAIN habits =>
            r.completed = CompletedFlag(r.value, habits[r.habit_id].daily_goal)

\* C4: a settlement run moves every habit's streak to streak + 1 when the day
\* is completed, raising max_streak to at least that, and to 0 otherwise,
\* leaving max_streak alone.
C4_StreakTransition ==
    [][eod_runs' = eod_runs + 1 =>
         \A h \in DOMAIN habits :
            LET completed == ValueOn(habit_logs, h, today) >= habits[h].daily_goal
            IN IF completed
               THEN /\ habits'[h].streak = habits[h].streak + 1
                    /\ habits'[h].max_streak =
                          Max(habits[h].max_streak, habits[h].streak + 1)
               ELSE /\ habits'[h].streak = 0
                    /\ habits'[h].max_streak = habits[h].max_streak]_vars

\* after a settlement one habit has its streak counted, another has it reset
C4_Witness ==
    /\ eod_runs >= 1
    /\ \E h1, h2 \in DOMAIN habits :
          /\ habits[h1].streak >= 1
          /\ habits[h1].max_streak = habits[h1].streak
          /\ habits[h2].streak = 0
          /\ ValueOn(habit_logs, h2, today) < habits[h2].daily_goal

\* C5: a second run of check_expired_notifications at the same time, right
\* after a first one, writes no log and changes neither the logs, the ledger
\* nor the chat.
C5_SweepIdempotent ==
    LET first == check_expired_notifications(deployment, habits, habit_logs,
                     pending_notifications, chat,
                   StoreNow(deployment, host_skew, now), today)
        second == check_expired_notifications(deployment, habits, first.logs,
                     first.pending, first.chat,
                     StoreNow(deployment, host_skew, now), today)
    IN /\ second.writes = 0
       /\ second.processed = {}
       /\ second.logs = first.logs
       /\ second.pending = first.pending
       /\ second.chat = first.chat

\* a state where the first run has work: it zero-fills and deletes a row
C5_Witness ==
    LET first == check_expired_notifications(deployment, habits, habit_logs,
                     pending_notifications, chat,
                   StoreNow(deployment, host_skew, now), today)
    IN /\ first.writes >= 1
       /\ first.processed # {}
       /\ first.pending # pending_notifications

\* C6: a marathon habit is credited its point at most once per day, however
\* often process_end_of_day runs that day.
C6_OneCreditPerDay ==
    \A h \in HabitIds : credited_today[h] <= PointsPerGoal

\* C7: at the end of a day a habit's streak is 0 or its streak at the start
\* of the day plus 1 (or still the start value before settlement), however
\* often process_end_of_day runs.
C7_StreakStepPerDay ==
    \A h \in DOMAIN habits :
        habits[h].streak \in {0, day_start_streak[h], day_start_streak[h] + 1}

\* C8: a ledger row is resolved one way only: no row the running sweep has
\* processed as expired is marked responded.
C8_ResolvedOnce ==
    \A n \in pending_notifications :
        n.id \in sweep.processed => n.responded = 0

\* C9: when no log_habit call is in progress, the row of (habit, date) is
\* unique and holds the sum of the manual deltas: a zero-fill of the sweep
\* interleaved with a manual log loses nothing.
C9_ManualLogSurvivesSweep ==
    (sweep.pc = "idle" /\ \A u \in Users : ~inflight[u].active) =>
        \A h \in DOMAIN habits :
            /\ Cardinality(LogRows(habit_logs, h, today)) <= 1
            /\ ValueOn(habit_logs, h, today) = logged[<<h, today>>]

\* C10: a user has at most one ledger row with responded = 0.
C10_OneUnresolvedPerUser ==
    \A u \in Users :
        Cardinality({n \in pending_notifications :
                        n.user_id = u /\ n.responded = 0}) <= 1

\* C11: in one run of check_notifications_for_time every due user with
\* uncompleted habits gets one message covering just these habits and one
\* ledger row expiring 10 minutes after it was sent (or, when the gateway
\* fails for that user, neither), and every other user gets nothing.
C11_OnePromptPerDueUser ==
    [][(check_fired' /\ ~check_fired) =>
         \A u \in Users :
            LET uncompleted == Uncompleted(habits, habit_logs, u, today)
                due == \E t \in CheckTimes :
                          /\ now % MinutesPerDay = CheckMinute(t)
                          /\ t \in get_user_notification_times(u)
                sent == {m \in chat' \ chat : m.user_id = u}
                rows == {n \in pending_notifications' \ pending_notifications :
                            n.user_id = u}
            IN IF due /\ uncompleted # {}
               THEN \/ sent = {} /\ rows = {}
                    \/ /\ Cardinality(sent) = 1
                       /\ \A m \in sent : m.habits = uncompleted
                       /\ Cardinality(rows) = 1
                       /\ \A n \in rows : /\ n.expires_at = n.sent_at + ResponseWindow
                                          /\ n.responded = 0
               ELSE sent = {} /\ rows = {}]_vars

C13_WindowHonoured ==
    LET t == StoreNow(deployment, host_skew, now)
        res == check_expired_notifications(deployment, habits, habit_logs,
                   pending_notifications, chat, t, today)
    IN /\ \A n \in pending_notifications :
             n.id \in res.processed => t >= n.sent_at + ResponseWindow
       /\ \A n \in pending_notifications :
             n.responded = 0 => t <= n.sent_at + ResponseWindow + SweepPeriod

\* C14: after a handler has logged any habit of a user and called
\* mark_notification_responded, the user has no ledger row with
\* responded = 0.
C14_AnyLogMarksResponded ==
    [][\A h \in DOMAIN habits :
          (\E v \in BoolButtons \cup QuickButtons \cup CustomInputs : LogAndMark(h, v)) =>
              \A n \in pending_notifications' :
                  n.user_id = habits[h].user_id => n.responded = 1]_vars

\* C15: the two-day trace of a numeric habit with a goal reached by two log
\* writes.  Day 1: the writes add up to the goal, the row is completed, and
\* the settlement of that day sets streak = 1 and max_streak = 1.  Day 2: the
\* check issues a prompt for the habit without a log; when nobody answers the
\* sweep writes the row with value 0, not completed, and removes the ledger
\* row; the settlement then sets streak = 0 and leaves max_streak = 1.
C15_TwoDayTrace ==
    /\ [](
        \A h \in DOMAIN habits :
            LET u == habits[h].user_id
            IN /\ logged[<<h, 1>>] = habits[h].daily_goal =>
                     /\ ValueOn(habit_logs, h, 1) = habits[h].daily_goal
                     /\ IsCompleted(habit_logs, h, 1)
               /\ (today = 2 /\ check_fired /\ LogRows(habit_logs, h, 2) = {}) =>
                     /\ \E n \in pending_notifications :
                           /\ n.user_id = u
                           /\ n.responded = 0
                           /\ n.expires_at = now + ResponseWindow
                     /\ \E m \in chat : m.user_id = u /\ h \in m.habits
               /\ (LogRows(habit_logs, h, 2) # {} /\ logged[<<h, 2>>] = 0) =>
                     /\ Cardinality(LogRows(habit_logs, h, 2)) = 1
                     /\ ValueOn(habit_logs, h, 2) = 0
                     /\ ~IsCompleted(habit_logs, h, 2)
                     /\ \A n \in pending_notifications :
                           n.user_id = u => ~(n.responded = 0 /\ n.expires_at < now))
    /\ [][
        \A h \in DOMAIN habits :
            (eod_runs = 0 /\ eod_runs' = 1) =>
                /\ (today = 1 /\ IsCompleted(habit_logs, h, 1)) =>
                      habits'[h].streak = 1 /\ habits'[h].max_streak = 1
                /\ (today = 2 /\ habits[h].streak = 1 /\ habits[h].max_streak = 1
                    /\ LogRows(habit_logs, h, 2) # {} /\ logged[<<h, 2>>] = 0) =>
                      habits'[h].streak = 0 /\ habits'[h].max_streak = 1]_vars

\* the end of the trace: the second settlement has run on a habit of the
\* large goal that was completed by two writes on day 1, prompted and
\* zero-filled on day 2
C15_Witness ==
    \E h \in DOMAIN habits :
        /\ today = 2
        /\ eod_runs = 1
        /\ habits[h].daily_goal = LargeGoal
        /\ logged[<<h, 1>>] = LargeGoal
        /\ IsCompleted(habit_logs, h, 1)
        /\ LogRows(habit_logs, h, 2) # {}
        /\ logged[<<h, 2>>] = 0
        /\ habits[h].streak = 0
        /\ habits[h].max_streak = 1
        /\ pending_notifications = {}
        /\ next_notif_id > 1

\* C16: a check never issues a prompt covering a habit whose row of today
\* was written by the sweep's zero-fill and by no log write of the user.
C16_NoPromptAfterZeroFill ==
    [][(check_fired' /\ ~check_fired) =>
          \A h \in DOMAIN habits :
              (LogRows(habit_logs, h, today) # {} /\ logged[<<h, today>>] = 0) =>
                  \A m \in chat' \ chat : h \notin m.habits]_vars

\* C17: whatever users the gateway fails for in a run of
\* check_notifications_for_time, every other due user with uncompleted
\* habits is sent one prompt covering them, and the run stores one ledger
\* row for each prompt it delivered and none for the users it failed for.
C17_SendFailureIsolated ==
    /\ [](\A lost \in SUBSET Users :
            LET first == [u \in Users |->
                             IF Uncompleted(habits, habit_logs, u, today) = {} THEN 0
                             ELSE MinOf(Uncompleted(habits, habit_logs, u, today))]
                prompts == PromptsFor(deployment, habits, habit_logs, SetToSeq(Users),
                                      lost, first, today)
            IN \A u \in Users :
                  LET mine == {i \in 1..Len(prompts) : prompts[i].user_id = u}
                      uncompleted == Uncompleted(habits, habit_logs, u, today)
                  IN IF u \notin lost /\ uncompleted # {}
                     THEN /\ Cardinality(mine) = 1
                          /\ \A i \in mine : prompts[i].habits = uncompleted
                     ELSE mine = {})
    /\ [][(check_fired' /\ ~check_fired) =>
            \E lost \in SUBSET Users : \A u \in Users :
               LET uncompleted == Uncompleted(habits, habit_logs, u, today)
                   sent == {m \in chat' \ chat : m.user_id = u}
                   rows == {n \in pending_notifications' \ pending_notifications :
                               n.user_id = u}
               IN IF u \notin lost /\ uncompleted # {}
                  THEN /\ Cardinality(sent) = 1
                       /\ Cardinality(rows) = 1
                       /\ \A n \in rows : n.responded = 0 /\ n.sent_at = now
                  ELSE sent = {} /\ rows = {}]_vars

\* after a run: a user with an uncompleted habit and a delivered prompt with
\* its ledger row, next to a user with an uncompleted habit, created before
\* the run, and neither prompt nor row
C17_Witness ==
    /\ check_fired
    /\ \E u1, u2 \in Users :
          /\ u1 # u2
          /\ \E h \in get_user_habits(habits, u1) : h < next_habit_id - 1
          /\ Uncompleted(habits, habit_logs, u1, today) # {}
          /\ \A n \in pending_notifications : n.user_id # u1
          /\ \A m \in chat : m.user_id # u1
          /\ \E n \in pending_notifications :
                n.user_id = u2 /\ n.sent_at = now /\ n.responded = 0
          /\ \E m \in chat : m.user_id = u2
          /\ next_notif_id = 2

\* C18: a run of check_notifications_for_time in which a store call failed
\* for one user still sends a prompt to every other user with uncompleted
\* habits.
C18_IsolateAndContinue ==
    [][(check_fired' /\ ~check_fired /\ check_error' # 0) =>
          \A u \in Users \ {check_error'} :
              Uncompleted(habits, habit_logs, u, today) # {} =>
                  /\ \E m \in chat' \ chat : m.user_id = u
                  /\ \E n \in pending_notifications' \ pending_notifications :
                        n.user_id = u]_vars

\* C19: in the sequence of store writes of one run of process_end_of_day,
\* every habit of every user gets one update_streak, every
\* update_marathon_points comes right after the update_streak of the same
\* habit, that update_streak was made with completed = TRUE, and the
\* update_streak of a marathon habit made with completed = TRUE is followed
\* by its credit.
C19_StreakBeforeCredit ==
    LET res == process_end_of_day(habits, habit_logs, marathon_participants,
                                  credited_today, today)
        calls == res.calls
        streaks(h) == {j \in 1..Len(calls) :
                          calls[j].op = "update_streak" /\ calls[j].habit_id = h}
    IN /\ \A h \in DOMAIN habits : Cardinality(streaks(h)) = 1
       /\ \A j \in 1..Len(calls) :
             calls[j].op = "update_marathon_points" =>
                /\ j > 1
                /\ calls[j - 1].op = "update_streak"
                /\ calls[j - 1].habit_id = calls[j].habit_id
                /\ calls[j - 1].flag
       /\ \A j \in 1..Len(calls) :
             (/\ calls[j].op = "update_streak"
              /\ calls[j].flag
              /\ habits[calls[j].habit_id].marathon_id # NoMarathon) =>
                /\ j < Len(calls)
                /\ calls[j + 1].op = "update_marathon_points"
                /\ calls[j + 1].habit_id = calls[j].habit_id

\* a settlement has run that credited one marathon habit and reset the
\* streak of another, not completed, one
C19_Witness ==
    /\ eod_runs >= 1
    /\ \E h1, h2 \in DOMAIN habits :
          /\ habits[h1].marathon_id # NoMarathon
          /\ credited_today[h1] >= PointsPerGoal
          /\ habits[h1].streak >= 1
          /\ habits[h2].marathon_id # NoMarathon
          /\ ~SettledCompleted(habits, habit_logs, h2, today)
          /\ credited_today[h2] = 0
          /\ habits[h2].streak = 0

\* C20: a run of process_end_of_day changes neither the ledger nor any log
\* row, and sets the streak of every habit from the value of today's row as
\* it is at that moment (streak + 1 when the value reaches the goal, else 0),
\* with or without unanswered ledger rows.
C20_SettlementFrame ==
    [][(eod_runs' = eod_runs + 1) =>
          /\ pending_notifications' = pending_notifications
          /\ habit_logs' = habit_logs
          /\ chat' = chat
          /\ \A h \in DOMAIN habits :
                habits'[h].streak =
                    IF ValueOn(habit_logs, h, today) >= habits[h].daily_goal
                    THEN habits[h].streak + 1 ELSE 0]_vars

\* after a settlement: an unanswered ledger row of a user is still there,
\* one habit of that user was settled as completed and another, without a
\* log row, as missed
C20_Witness ==
    /\ eod_runs >= 1
    /\ \E n \in pending_notifications :
          /\ n.responded = 0
          /\ \E h1, h2 \in get_user_habits(habits, n.user_id) :
                /\ habits[h1].streak >= 1
                /\ habits[h2].streak = 0
                /\ LogRows(habit_logs, h2, today) = {}

\* C21: one run of process_end_of_day adds to the balance of every
\* participant one point for each of the user's habits linked to the
\* marathon whose value of today is at least the goal, and nothing else.
C21_PointsPerCompletedHabit ==
    [][(eod_runs' = eod_runs + 1) =>
          \A p \in marathon_participants :
              LET done == {h \in DOMAIN habits :
                              /\ habits[h].user_id = p.user_id
                              /\ habits[h].marathon_id = p.marathon_id
                              /\ ValueOn(habit_logs, h, today) >= habits[h].daily_goal}
              IN \E q \in marathon_participants' :
                    /\ q.user_id = p.user_id
                    /\ q.marathon_id = p.marathon_id
                    /\ q.total_points = p.total_points + PointsPerGoal * Cardinality(done)]_vars

\* after the first run of a day: one participant with a point for a habit
\* at its goal of 2, another with no point for a habit at 1 of 2
C21_Witness ==
    /\ eod_runs = 1
    /\ \E p, q \in marathon_participants :
          /\ p.total_points = PointsPerGoal
          /\ q.total_points = 0
          /\ \E h \in MarathonHabitsOf(habits, p.user_id) :
                habits[h].daily_goal = 2 /\ ValueOn(habit_logs, h, today) = 2
          /\ \E h \in MarathonHabitsOf(habits, q.user_id) :
                habits[h].daily_goal = 2 /\ ValueOn(habit_logs, h, today) = 1

\* C22: in every step the balance of a participant row that is still there
\* afterwards has not decreased, and a row is gone afterwards only when the
\* step is leave_marathon of that user.
C22_PointsMonotone ==
    [][\A p \in marathon_participants :
          LET after == ParticipantRows(marathon_participants', p.user_id, p.marathon_id)
          IN /\ \A q \in after : q.total_points >= p.total_points
             /\ after = {} => \E keep \in BOOLEAN : LeaveMarathonExecute(p.user_id, keep)]_vars

\* a participant row credited by two settlements
C22_Witness ==
    \E p \in marathon_participants :
        /\ p.total_points >= 2 * PointsPerGoal
        /\ \E h \in MarathonHabitsOf(habits, p.user_id) : habits[h].streak >= 2

\* C23: no step lowers the value of the log of a habit on any date.
C23_ValueAppendOnly ==
    [][\A h \in DOMAIN habits, d \in Days :
          h \in DOMAIN habits' =>
              ValueOn(habit_logs', h, d) >= ValueOn(habit_logs, h, d)]_vars

\* C24: the log of a boolean habit holds 0 or 1 on every date.
C24_BooleanZeroOrOne ==
    \A h \in DOMAIN habits, d \in Days :
        habits[h].habit_type = "boolean" => ValueOn(habit_logs, h, d) \in {0, 1}

\* C25: every numeric habit has a daily goal above 0 and every boolean habit
\* the daily goal 1.
C25_GoalsPositive ==
    \A h \in DOMAIN habits :
        /\ habits[h].habit_type = "numeric" => habits[h].daily_goal > 0
        /\ habits[h].habit_type = "boolean" => habits[h].daily_goal = 1

\* C26: a run of the sweep over an expired unanswered row whose habit is no
\* longer in the habits table writes no log row for that habit, removes the
\* row from the ledger and completes, and every other expired unanswered row
\* of the same run has its habit zero-filled: one log row of today with the
\* value it had before the run.
C26_MissingHabitSkipped ==
    LET t == StoreNow(deployment, host_skew, now)
        res == check_expired_notifications(deployment, habits, habit_logs,
                   pending_notifications, chat, t, today)
        expired == ExpiredRows(pending_notifications, t)
    IN \A n \in expired :
          n.habit_id \notin DOMAIN habits =>
             /\ {r \in res.logs : r.habit_id = n.habit_id}
                   = {r \in habit_logs : r.habit_id = n.habit_id}
             /\ \A r \in res.logs : r.habit_id \in DOMAIN habits
             /\ n \notin res.pending
             /\ n.id \in res.processed
             /\ \A m \in expired :
                   (deployment = "root" /\ m.habit_id \in DOMAIN habits) =>
                      /\ m \notin res.pending
                      /\ Cardinality(LogRows(res.logs, m.habit_id, today)) = 1
                      /\ ValueOn(res.logs, m.habit_id, today)
                            = ValueOn(habit_logs, m.habit_id, today)

\* the sweep is due with two expired unanswered rows: one of a deleted habit,
\* one of a habit that is in the table and has no log today
C26_Witness ==
    LET expired == ExpiredRows(pending_notifications,
                               StoreNow(deployment, host_skew, now))
    IN \E n, m \in expired :
          /\ n.habit_id \notin DOMAIN habits
          /\ n.habit_id \in HabitIds
          /\ m.habit_id \in DOMAIN habits
          /\ LogRows(habit_logs, m.habit_id, today) = {}

\* C27: in the digests of one run of process_end_of_day, a habit is reported
\* as "streak extended" exactly when it is completed and its new streak is
\* above 1, and as "streak broken" exactly when it is not completed and its
\* streak before the run was above 0, never both and at most once; every
\* user with a habit is sent exactly one digest, with one line for each of
\* the user's habits, and a user without habits none.
C27_DigestStreakLines ==
    LET res == process_end_of_day(habits, habit_logs, marathon_participants,
                                  credited_today, today)
        digests == {res.sent[i] : i \in 1..Len(res.sent)}
        Reports(msg, kind, h) ==
            {i \in 1..Len(msg.streak_updates) :
                msg.streak_updates[i].kind = kind /\ msg.streak_updates[i].habit_id = h}
    IN /\ \A u \in Users :
             Cardinality({i \in 1..Len(res.sent) : res.sent[i].user_id = u})
                = IF get_user_habits(habits, u) # {} THEN 1 ELSE 0
       /\ \A msg \in digests :
             /\ {msg.report_lines[i].habit_id : i \in 1..Len(msg.report_lines)}
                   = get_user_habits(habits, msg.user_id)
             /\ Len(msg.report_lines) = Cardinality(get_user_habits(habits, msg.user_id))
             /\ \A i \in 1..Len(msg.streak_updates) :
                   msg.streak_updates[i].habit_id \in get_user_habits(habits, msg.user_id)
             /\ \A h \in get_user_habits(habits, msg.user_id) :
                   LET completed == ValueOn(habit_logs, h, today) >= habits[h].daily_goal
                       fire == Reports(msg, "streak_fire", h)
                       lost == Reports(msg, "streak_lost", h)
                   IN /\ Cardinality(fire)
                            = IF completed /\ res.habits[h].streak > 1 THEN 1 ELSE 0
                      /\ Cardinality(lost)
                            = IF ~completed /\ habits[h].streak > 0 THEN 1 ELSE 0
                      /\ fire = {} \/ lost = {}

\* after one settlement and with the next one due: the digest of a user will
\* report one habit as extended (streak 2) and another as broken, and the
\* other user has no habit and gets no digest
C27_Witness ==
    LET res == process_end_of_day(habits, habit_logs, marathon_participants,
                                  credited_today, today)
    IN /\ eod_runs = 1
       /\ Len(res.sent) = 1
       /\ \E u \in Users : get_user_habits(habits, u) = {}
       /\ \E i, j \in 1..Len(res.sent[1].streak_updates) :
             /\ res.sent[1].streak_updates[i].kind = "streak_fire"
             /\ res.sent[1].streak_updates[i].streak = 2
             /\ res.sent[1].streak_updates[j].kind = "streak_lost"

\* C28: for a boolean habit, get_habit_stats over [start, end] returns
\* total_days = end - start + 1, completed_days = the number of completed
\* logs of the habit in the range, missed_days = total_days -
\* completed_days, with 0 <= completed_days <= total_days, and efficiency =
\* completed_days / total_days * 100 at the nearest tenth; the efficiency is
\* 0 when total_days is not positive.
C28_BooleanStats ==
    /\ [](\A h \in DOMAIN habits, s, e \in HistoryDates(WeekLength) :
            (habits[h].habit_type = "boolean" /\ e - s + 1 <= 0) =>
               get_habit_stats(habits, habit_logs, h, s, e).efficiency = 0)
    /\ [][(stats' # stats /\ habits[stats'.habit_id].habit_type = "boolean") =>
               LET h == stats'.habit_id
                   s == stats'.start_date
                   e == stats'.end_date
                   done == {r \in habit_logs :
                               /\ r.habit_id = h /\ r.completed = 1
                               /\ s <= r.log_date /\ r.log_date <= e}
                   tenths == stats'.efficiency
               IN /\ stats'.total_days = e - s + 1
                  /\ stats'.completed_days = Cardinality(done)
                  /\ stats'.missed_days = stats'.total_days - stats'.completed_days
                  /\ 0 <= stats'.completed_days
                  /\ stats'.completed_days <= stats'.total_days
                  /\ 2 * (tenths * stats'.total_days - 1000 * stats'.completed_days)
                        <= stats'.total_days
                  /\ 2 * (1000 * stats'.completed_days - tenths * stats'.total_days)
                        <= stats'.total_days]_vars

\* 5 completed days of a 7-day period: efficiency 71.4, 2 days missed
C28_Witness ==
    /\ stats # NoStats
    /\ habits[stats.habit_id].habit_type = "boolean"
    /\ stats.total_days = 7
    /\ stats.completed_days = 5
    /\ stats.missed_days = 2
    /\ stats.efficiency = 714

\* C29: for a numeric habit, get_habit_stats returns total_value = the sum of
\* the values of the habit's logs in the period and best_day = a log of the
\* period with the largest value, the earliest of them when several have it,
\* and no best_day when the period has no log; the call changes nothing in
\* the store.
C29_NumericStats ==
    [][(stats' # stats /\ habits[stats'.habit_id].habit_type = "numeric") =>
          LET h == stats'.habit_id
              s == stats'.start_date
              e == stats'.end_date
              rows == {r \in habit_logs :
                          r.habit_id = h /\ s <= r.log_date /\ r.log_date <= e}
              sum[d \in (s - 1)..e] ==
                  IF d = s - 1 THEN 0 ELSE sum[d - 1] + ValueOn(habit_logs, h, d)
              best == stats'.best_day
          IN /\ stats'.total_value = sum[e]
             /\ IF rows = {} THEN best = NoLog
                ELSE /\ best \in rows
                     /\ \A r \in rows :
                           /\ r.value <= best.value
                           /\ r.value = best.value => best.log_date <= r.log_date
             /\ habit_logs' = habit_logs
             /\ habits' = habits
             /\ pending_notifications' = pending_notifications
             /\ marathon_participants' = marathon_participants
             /\ marathon_habits' = marathon_habits]_vars

\* a returned record whose best day is the earlier of two days with the
\* largest value, in a period with a third, smaller log
C29_Witness ==
    /\ stats # NoStats
    /\ habits[stats.habit_id].habit_type = "numeric"
    /\ Len(stats.logs) = 3
    /\ \E i, j, k \in 1..Len(stats.logs) :
          /\ i < j
          /\ stats.logs[i] = stats.best_day
          /\ stats.logs[j].value = stats.best_day.value
          /\ stats.logs[k].value < stats.best_day.value
    /\ stats.total_value = 2 * stats.best_day.value + 1

\* C30: every row of habit_logs references a habit that is in the habits
\* table, in every reachable state; in particular none references a habit
\* after delete_habit or leave_marathon without keep_habits removed it.
C30_LogsReferenceHabits ==
    \A r \in habit_logs : r.habit_id \in DOMAIN habits

\* C31: every unanswered row the final delete_expired_notifications of a
\* sweep removes was selected as expired by that sweep, and after the
\* removal every habit of the row's user has a log row of today.
C31_RemovedRowsWereSettled ==
    [][\A n \in pending_notifications \ pending_notifications' :
          (sweep.pc = "loop" /\ sweep' = SweepIdle /\ n.responded = 0) =>
             /\ n.id \in sweep.processed
             /\ \A h \in get_user_habits(habits', n.user_id) :
                   LogRows(habit_logs', h, today) # {}]_vars

\* C32: a run of the sweep leaves the value and the completed flag of every
\* log row that exists before it as they are, every row it adds has value 0
\* and completed 0, it adds no ledger row, and it changes no streak, no
\* max_streak and no marathon balance.
C32_SweepFrame ==
    /\ [](LET res == check_expired_notifications(deployment, habits, habit_logs,
                         pending_notifications, chat,
                         StoreNow(deployment, host_skew, now), today)
          IN /\ \A r \in habit_logs :
                   \E q \in res.logs :
                      /\ q.habit_id = r.habit_id /\ q.log_date = r.log_date
                      /\ q.value = r.value /\ q.completed = r.completed
             /\ \A q \in res.logs :
                   (\A r \in habit_logs :
                       ~(r.habit_id = q.habit_id /\ r.log_date = q.log_date)) =>
                      q.value = 0 /\ q.completed = 0
             /\ res.pending \subseteq pending_notifications)
    /\ [][CheckExpiredNotifications =>
             /\ habits' = habits
             /\ marathon_participants' = marathon_participants]_vars

\* C33: a ledger row is inserted only for a prompt the gateway delivered,
\* and every prompt the gateway delivered gets its ledger row when the send
\* function goes on after the send.
C33_RowIffDelivered ==
    [][/\ \A n \in pending_notifications' \ pending_notifications :
             \E m \in chat' : m.message_id = n.id /\ m.user_id = n.user_id
       /\ \A m \in chat' \ chat :
             \/ sending'.active /\ sending'.id = m.message_id
             \/ \E n \in pending_notifications' \ pending_notifications :
                   n.id = m.message_id /\ n.user_id = m.user_id
       /\ (sending.active /\ ~sending'.active) =>
             \E n \in pending_notifications' \ pending_notifications :
                n.id = sending.id /\ n.user_id = sending.user_id]_vars

\* C35: every time offered by notification_times_keyboard, every time of the
\* default list and every time in the stored list of a user is the argument
\* of one of the check jobs of setup_scheduler.
C35_TimesAreScheduled ==
    /\ available_times \cup DefaultNotificationTimes \subseteq ScheduledCheckTimes
    /\ \A u \in Users : \A t \in get_user_notification_times(u) :
          \E hour \in notification_hours :
             FormatHour(hour) = t /\ CheckMinute(t) = 60 * hour

\* a user who replaced the default list by the first and the last time of the
\* keyboard
C35_Witness ==
    \E u \in Users : get_user_notification_times(u) = {"06:00", "22:00"}

\* C34: at 23:59, when process_end_of_day fires, the ledger holds no row a
\* notification check of that day created.
C34_NoOpenPromptAtSettlement ==
    (now % MinutesPerDay = EodMinute) =>
        \A n \in pending_notifications :
            n.sent_at \div MinutesPerDay # now \div MinutesPerDay

\* after a settlement at 23:59: the check of 22:00 had sent a prompt to a
\* user who did not answer, whose habit has the zero-fill row of the sweep
C34_Witness ==
    /\ now % MinutesPerDay = EodMinute
    /\ eod_runs >= 1
    /\ next_notif_id > 1
    /\ \E h \in DOMAIN habits :
          /\ LastCheckTime \in notification_times[habits[h].user_id]
          /\ LogRows(habit_logs, h, today) # {}
          /\ ValueOn(habit_logs, h, today) = 0
          /\ logged[<<h, today>>] = 0

C37_JoinIdempotent ==
    /\ [](\A u \in Users :
             /\ Cardinality(ParticipantRows(marathon_participants, u, MarathonId)) <= 1
             /\ Cardinality(MarathonHabitsOf(habits, u)) <= Len(marathon_habits))
    /\ [][\A c \in JoinCalls :
             (/\ joining'[c] # joining[c]
              /\ joining[c].pc \in {"idle", "insert"}
              /\ ParticipantRows(marathon_participants, joining'[c].user_id,
                                 MarathonId) # {}) =>
                 /\ joining'[c].result = "false"
                 /\ marathon_participants' = marathon_participants
                 /\ habits' = habits
                 /\ next_habit_id' = next_habit_id]_vars

\* C37 as the code has it: the join that loses the race ends with the
\* unique violation of its INSERT instead of returning False; the tables are
\* as the claim says
C37_OneMembership ==
    /\ [](\A u \in Users :
             /\ Cardinality(ParticipantRows(marathon_participants, u, MarathonId)) <= 1
             /\ Cardinality(MarathonHabitsOf(habits, u)) <= Len(marathon_habits))
    /\ [][\A c \in JoinCalls :
             (/\ joining'[c] # joining[c]
              /\ joining[c].pc \in {"idle", "insert"}
              /\ ParticipantRows(marathon_participants, joining'[c].user_id,
                                 MarathonId) # {}) =>
                 /\ joining'[c].result =
                        IF joining[c].pc = "idle" THEN "false" ELSE "raised"
                 /\ marathon_participants' = marathon_participants
                 /\ habits' = habits
                 /\ next_habit_id' = next_habit_id]_vars

\* two joins of one user interleaved: one returned True, the other raised,
\* and the user's one row carries the point of a settlement
C37_Witness ==
    \E u \in Users \ Creators :
        /\ \E c, d \in JoinCalls :
              /\ joining[c] = [pc |-> "idle", user_id |-> u, result |-> "true"]
              /\ joining[d] = [pc |-> "idle", user_id |-> u, result |-> "raised"]
        /\ \E p \in ParticipantRows(marathon_participants, u, MarathonId) :
              p.total_points >= PointsPerGoal
        /\ Cardinality(MarathonHabitsOf(habits, u)) = Len(marathon_habits)

====
